---------------------------- MODULE Spec2Model ----------------------------
(***************************************************************************)
(* SCEPTTr 1.2 (src/redesignofguiforscepttr/main.cpp): the interaction     *)
(* selector PairWiseCalc, the helix scorer ScoreHelix / ScoreLibrary and   *)
(* the calibration loop of main.                                           *)
(*                                                                         *)
(* Numbers.  The program computes in double.  Every temperature, parameter *)
(* and deviation is kept here as an integer count of 1/60 degree, so that  *)
(* the program's constants 0.1, 1.8, 2.0, 3, 10 and its operations "/3"    *)
(* and "0.5*" are exact on the values the model draws (parameters are      *)
(* multiples of 0.1 degree, that is of 6 units).  Squared deviations are   *)
(* in units of 1/3600.  Residues are the program's array indices           *)
(* (char - 64): 0 is undefined, 1 is "A", 26 is "Z".  C arrays indexed     *)
(* from 0 are functions on 0..n-1.                                         *)
(***************************************************************************)
EXTENDS Integers, Sequences, FiniteSets, TLC

VARIABLES
    XPW,              \* selector input: axial score per site
    LPW,              \* selector input: lateral score per site
    pwResult,         \* value returned by PairWiseCalc, "none" before the call
    pwPhase,          \* "idle" | "ready" | "done"
    parameters,       \* main's parameterType parameters
    userHelix,        \* the TripleHelix handed to ScoreHelix
    scoreCalls,       \* number of ScoreHelix calls made on userHelix
    Library,          \* main's Library[0 .. TotalHelices-1]
    workers,          \* the two ScoreLibrary threads: next sample, stop, parameter copy
    passStart,        \* history: Library as it was when the threads were created
    sumSquaredDev,    \* main's sumSquaredDev
    NewSumSquaredDev, \* main's NewSumSquaredDev
    improved,         \* main's improved
    improvedRound,    \* main's improvedRound
    done,             \* main's done
    round,            \* main's round
    cursor,           \* position of the for loops over x and y, as a visit rank
    slot,             \* the scalar under trial, "none" between trials
    allowOptimization,\* FALSE: line 1783 as written; TRUE: line 1783 commented out
    pc,               \* position of main
    exactValue,       \* the doubles held by the scalars flagged for optimization
    history,          \* history: the trial in progress and the scalars visited
    loader            \* the call of readLibrary: file, target array, progress

pwVars == <<XPW, LPW, pwResult, pwPhase>>
scoreVars == <<parameters, userHelix, scoreCalls>>
loopVars == <<sumSquaredDev, NewSumSquaredDev, improved, improvedRound, done, round,
              cursor, slot>>
trialVars == <<exactValue, history>>
calVars == <<Library, workers, passStart, sumSquaredDev, NewSumSquaredDev, improved,
             improvedRound, done, round, cursor, slot, allowOptimization, pc,
             exactValue, history>>

vars == <<XPW, LPW, pwResult, pwPhase, parameters, userHelix, scoreCalls,
          Library, workers, passStart, sumSquaredDev, NewSumSquaredDev, improved,
          improvedRound, done, round, cursor, slot, allowOptimization, pc,
          exactValue, history, loader>>

----------------------------------------------------------------------------
(* Small arithmetic helpers *)

Abs(v) == IF v < 0 THEN -v ELSE v

(* The element of a one-element set.  Only({ e(v) : v \in {a} }) is e(a)     *)
(* with a evaluated once, before e: the form used below wherever the        *)
(* program stores a value in a local variable and then reads it repeatedly. *)
Only(S) == CHOOSE v \in S : TRUE

RECURSIVE SumOver(_, _)
(* Sum of f[i] over the finite set S of indices *)
SumOver(f, S) ==
    IF S = {} THEN 0
    ELSE Only({ f[c[1]] + SumOver(f, c[2])
                : c \in { Only({ <<i, S \ {i}>> : i \in {CHOOSE j \in S : TRUE} }) } })

----------------------------------------------------------------------------
(* The arithmetic of the type double (binary64): a value is its sign, the   *)
(* exponent e of its leading bit and the 53 bits m from the leading one     *)
(* down, or FZero.  Sums and differences are computed exactly and rounded   *)
(* to nearest, ties to even; exponents stay far from the limits of the type. *)

MantissaBits == 53

(* Largest shift tried when a ratio is normalised *)
MaxShift == 20

RECURSIVE Pow2(_)
Pow2(n) == IF n = 0 THEN 1 ELSE 2 * Pow2(n - 1)

Least(S) == CHOOSE v \in S : \A w \in S : v <= w
Greatest(S) == CHOOSE v \in S : \A w \in S : w <= v

FZero == [neg |-> FALSE, e |-> 0, m |-> [i \in 1..MantissaBits |-> 0]]
IsFZero(d) == d.m[1] = 0
FNeg(d0) == Only({ IF IsFZero(d) THEN d ELSE [d EXCEPT !.neg = ~@] : d \in {d0} })

BitAt(d, p) == IF p <= d.e /\ p > d.e - MantissaBits THEN d.m[d.e - p + 1] ELSE 0

Increment(m) ==
    Only({ [i \in 1..MantissaBits |-> IF i < j THEN m[i] ELSE IF i = j THEN 1 ELSE 0]
           : j \in { Greatest({i \in 1..MantissaBits : m[i] = 0}) } })

(* Width of the integers the sums are carried out on *)
ChunkBits == 15
ChunkBase == Pow2(ChunkBits)

(* The bits R[1..n] (lowest first, R[1] of weight 2^lo), whose highest set   *)
(* bit is R[top], rounded to nearest, ties to even                           *)
RoundAt(neg, R, lo, top) ==
    LET keep == top - MantissaBits + 1
        guard == IF keep - 1 >= 1 THEN R[keep - 1] ELSE 0
        sticky == \E p \in 1..(keep - 2) : R[p] = 1
        lsb == IF keep >= 1 THEN R[keep] ELSE 0
        kept == [i \in 1..MantissaBits |->
                   IF top - i + 1 >= 1 THEN R[top - i + 1] ELSE 0]
    IN IF ~(guard = 1 /\ (sticky \/ lsb = 1))
       THEN [neg |-> neg, e |-> lo + top - 1, m |-> kept]
       ELSE IF \A i \in 1..MantissaBits : kept[i] = 1
       THEN [neg |-> neg, e |-> lo + top,
             m |-> [i \in 1..MantissaBits |-> IF i = 1 THEN 1 ELSE 0]]
       ELSE [neg |-> neg, e |-> lo + top - 1, m |-> Increment(kept)]

RoundBits(neg, R, n, lo) ==
    Only({ IF ones = {} THEN FZero
           ELSE Only({ RoundAt(neg, R, lo, top) : top \in {Greatest(ones)} })
           : ones \in { {p \in 1..n : R[p] = 1} } })

(* The bits of d from weight 2^lo up, in chunks of ChunkBits bits, lowest first *)
ChunkOf(d, lo, j) ==
    SumOver([i \in 0..(ChunkBits - 1) |-> BitAt(d, lo + ChunkBits * j + i) * Pow2(i)],
            0..(ChunkBits - 1))
Chunks(d, lo, k) == [j \in 1..k |-> ChunkOf(d, lo, j - 1)]

(* Bit p of the chunks L *)
ChunkBit(L, p) == (L[((p - 1) \div ChunkBits) + 1] \div Pow2((p - 1) % ChunkBits)) % 2

(* st = <<carry, chunks so far>> *)
RECURSIVE AddFrom(_, _, _, _, _)
AddFrom(A, B, k, j, st) ==
    IF j > k THEN st[2]
    ELSE Only({ AddFrom(A, B, k, j + 1, nx)
                : nx \in { <<(A[j] + B[j] + st[1]) \div ChunkBase,
                             Append(st[2], (A[j] + B[j] + st[1]) % ChunkBase)>> } })

(* st = <<borrow, chunks so far>>, for A >= B *)
RECURSIVE SubFrom(_, _, _, _, _)
SubFrom(A, B, k, j, st) ==
    IF j > k THEN st[2]
    ELSE Only({ SubFrom(A, B, k, j + 1, nx)
                : nx \in { <<IF A[j] - B[j] - st[1] < 0 THEN 1 ELSE 0,
                             Append(st[2], (A[j] - B[j] - st[1] + ChunkBase) % ChunkBase)>> } })

MagGeq(A, B, k) ==
    LET D == {j \in 1..k : A[j] # B[j]}
    IN D = {} \/ A[Greatest(D)] > B[Greatest(D)]

(* a + b for two nonzero doubles given as values, on k chunks from 2^lo *)
AddValues(a, b, lo, k) ==
    Only({ Only({ RoundBits(res[1], [p \in 1..(k * ChunkBits) |-> ChunkBit(res[2], p)],
                            k * ChunkBits, lo)
                  : res \in { IF a.neg = b.neg
                              THEN <<a.neg, AddFrom(c[1], c[2], k, 1, <<0, <<>>>>)>>
                              ELSE IF MagGeq(c[1], c[2], k)
                              THEN <<a.neg, SubFrom(c[1], c[2], k, 1, <<0, <<>>>>)>>
                              ELSE <<b.neg, SubFrom(c[2], c[1], k, 1, <<0, <<>>>>)>> } })
           : c \in { <<Chunks(a, lo, k) @@ <<>>, Chunks(b, lo, k) @@ <<>> >> } })

FAdd(a0, b0) ==
    Only({ IF IsFZero(v[1]) THEN v[2]
           ELSE IF IsFZero(v[2]) THEN v[1]
           ELSE Only({ AddValues(v[1], v[2], r[1], r[2])
                       : r \in { <<(IF v[1].e < v[2].e THEN v[1].e ELSE v[2].e)
                                       - MantissaBits + 1,
                                   ((Abs(v[1].e - v[2].e) + MantissaBits + 1)
                                       \div ChunkBits) + 1>> } })
           : v \in {<<a0, b0>>} })

FSub(a, b) == FAdd(a, FNeg(b))
FLeq(a, b) == \E d \in {FSub(a, b)} : IsFZero(d) \/ d.neg

(* Chunks of quotient bits produced by a division *)
DivChunks == 4

(* Quotient of num / den in [1, 2): the leading 1 and DivChunks chunks of    *)
(* fraction bits, st = <<remainder, chunks so far (lowest first)>>           *)
RECURSIVE DivFrom(_, _, _)
DivFrom(den, j, st) ==
    IF j > DivChunks THEN st
    ELSE Only({ DivFrom(den, j + 1, nx)
                : nx \in { <<(st[1] * ChunkBase) % den,
                             <<(st[1] * ChunkBase) \div den>> \o st[2]>> } })

(* The double nearest to n / d *)
FromRatio(n, d) ==
    IF n = 0 THEN FZero
    ELSE Only({ Only({ RoundBits(n < 0,
                          [p \in 1..(DivChunks * ChunkBits + 2) |->
                              IF p = 1 THEN (IF q[1] # 0 THEN 1 ELSE 0)
                              ELSE IF p = DivChunks * ChunkBits + 2 THEN 1
                              ELSE ChunkBit(q[2], p - 1)],
                          DivChunks * ChunkBits + 2,
                          e - DivChunks * ChunkBits - 1)
                       : q \in { DivFrom(IF e >= 0 THEN d * Pow2(e) ELSE d, 1,
                                   <<(IF e >= 0 THEN Abs(n) ELSE Abs(n) * Pow2(0 - e))
                                       - (IF e >= 0 THEN d * Pow2(e) ELSE d), <<>> >>) } })
                : e \in { IF Abs(n) >= d
                          THEN Greatest({k \in 0..MaxShift : d * Pow2(k) <= Abs(n)})
                          ELSE 0 - Least({k \in 1..MaxShift : Abs(n) * Pow2(k) >= d}) } })

----------------------------------------------------------------------------
(* Interaction selector: PairWiseCalc, main.cpp:56-121 *)

(* previousPWType codes used by the recursion *)
NoPair == 0
LatPair == 1
AxPair == 2
(* previousPWType passed by ScoreHelix on the first call *)
NoPrevious == 9

(* "if (LPW[currentPair] > 0) currentPWSum += LPW[currentPair]" with the    *)
(* magnitude added whatever the sign                                        *)
StabilizingMagnitude(sum, v) == sum + Abs(v)

(* "if (v > 0) currentPWSum += v": only stabilizing contacts are summed *)
Stabilizing(sum, v) == IF v > 0 THEN sum + v ELSE sum

(* "if (currentPWSum > BestPWTotal) BestPWTotal = currentPWSum; return BestPWTotal" *)
KeepBest(currentPWSum, BestPWTotal) ==
    IF currentPWSum > BestPWTotal THEN currentPWSum ELSE BestPWTotal

RECURSIVE PairWiseCalc(_, _, _, _, _, _, _)
PairWiseCalc(X, L, currentPair, lastPair, previousPWType, currentPWSum, BestPWTotal) ==
    IF currentPair > lastPair THEN BestPWTotal
    ELSE
      LET atLast == (currentPair = lastPair)
          \* first block: no pair at this site, entered when the previous site had one
          noBlock == (previousPWType # NoPair)
          sum1 == currentPWSum
          \* second block: lateral pair, entered unless the previous site was axial;
          \* currentPWSum is the same local variable in all three blocks
          latBlock == (previousPWType # AxPair)
          sum2 == IF latBlock THEN Stabilizing(sum1, L[currentPair]) ELSE sum1
          \* third block: axial pair, always entered
          sum3 == Stabilizing(sum2, X[currentPair])
      IN
      IF noBlock /\ atLast THEN KeepBest(sum1, BestPWTotal)
      ELSE Only({
        IF latBlock /\ atLast THEN KeepBest(sum2, best1)
        ELSE Only({
          IF atLast THEN KeepBest(sum3, best2)
          ELSE PairWiseCalc(X, L, currentPair + 1, lastPair, AxPair, sum3, best2)
          : best2 \in { IF latBlock
                        THEN PairWiseCalc(X, L, currentPair + 1, lastPair, LatPair, sum2, best1)
                        ELSE best1 } })
        : best1 \in { IF noBlock
                      THEN PairWiseCalc(X, L, currentPair + 1, lastPair, NoPair, sum1, BestPWTotal)
                      ELSE BestPWTotal } })

(* The selector over a thread of m = lastPair + 1 sites, called as ScoreHelix calls it *)
Selector(X, L, lastPair) == PairWiseCalc(X, L, 0, lastPair, NoPrevious, 0, 0)

----------------------------------------------------------------------------
(* Residues: the index char - 64 of the letters the program tests for *)
resD == 4
resE == 5
resG == 7
resK == 11
resO == 15
resP == 16
resR == 18
resW == 23
resY == 25

(* parameterType arrays are [27] and [27][27] *)
NumResidueSlots == 27
Residues == 0..(NumResidueSlots - 1)

(* Program constants, in units of 1/60 degree *)
TermPenalty == 108          \* 1.8
AromaticCapBonus == 180     \* 3
NoTransition == 0 - 600     \* expTm = -10: no transition observed
NoTransitionCap == 600      \* 10
DegreeUnit == 60            \* 1.0: the charge penalty is a whole number
ChargeFree == 6
MaxLengthAA == 50
InitMaxTm == 0 - 60000          \* maxTm = -1000
InitSecondBestTm == 0 - 120000  \* secondBestTm = -2000
InitCCTm == 0 - 90000           \* CCTm = -1500
InitBestReg == <<6, 6, 6, 11>>
InitSecondBestReg == <<5, 5, 5, 10>>
InitCCRegister == <<7, 7, 7, 12>>
ThreadSlots == 20

(* short arithmetic: netCharge and totalCharge are short *)
ShortWrap(v) == ((v + 32768) % 65536) - 32768

(* The triples (a, b, c) of the result grids, offset class d = 0.  The      *)
(* enumeration "for d < 1" visits no other offset class, so the cells of    *)
(* classes 1..8 are only ever reset and are not carried in the model.       *)
Triples == (0..2) \X (0..2) \X (0..2)

(* TripleHelix::isXaa / isYaa / isGly *)
isXaa(XaaPos, position) == Abs(position + (3 - XaaPos)) % 3 = 0
isYaa(XaaPos, position) == Abs(position + (3 - XaaPos)) % 3 = 1
(* Gly is looked for at the third position of every triad *)
isGlyUnshifted(XaaPos, position) == position % 3 = 2

isGly(XaaPos, position) == Abs(position + (3 - XaaPos)) % 3 = 2

(* The k-th triple of "for a, for b, for c" over numPep peptides, k from 0 *)
TripleAt(k, numPep) ==
    <<k \div (numPep * numPep), (k \div numPep) % numPep, k % numPep>>

(* Length basis A + B*L + C*L^2, L capped at 50 (d = 0) *)
LengthBasis(params, numAA) ==
    IF numAA > MaxLengthAA
    THEN params.A + (params.B * MaxLengthAA) + (params.C * MaxLengthAA * MaxLengthAA)
    ELSE params.A + (params.B * numAA) + (params.C * numAA * numAA)

(* Termination, Tyr/Trp caps and terminal hydrogen bonding *)
TerminalTerms(h, t) ==
    LET sa == h.sequences[t[1]]
        sb == h.sequences[t[2]]
        sc == h.sequences[t[3]]
        last == h.numAA - 1
        allAt(pos, r) == sa[pos] = r /\ sb[pos] = r /\ sc[pos] = r
    IN  (IF h.Nterm = "n" THEN 0 - TermPenalty ELSE 0)
      + (IF h.Cterm = "c" THEN 0 - TermPenalty ELSE 0)
      + (IF allAt(0, resY) THEN AromaticCapBonus ELSE 0)
      + (IF allAt(last, resY) THEN AromaticCapBonus ELSE 0)
      + (IF allAt(0, resW) THEN AromaticCapBonus ELSE 0)
      + (IF allAt(last, resW) THEN AromaticCapBonus ELSE 0)
      + (IF ~isXaa(h.XaaPos, 0) THEN 0 - TermPenalty ELSE 0)
      + (IF ~isGly(h.XaaPos, last) THEN 0 - TermPenalty ELSE 0)

(* "if ((x>2) && (x<(numAA-2)))": not the tips *)
NotTip(x, numAA) == (x > 2) /\ (x < numAA - 2)

(* Propensity of one residue at position x: X table at Xaa, Y table at Yaa, *)
(* divided by 3 at the tips                                                 *)
ResiduePropensity(params, h, r, x) ==
    LET full == IF isXaa(h.XaaPos, x) THEN params.propensityX[r]
                ELSE IF isYaa(h.XaaPos, x) THEN params.propensityY[r]
                ELSE 0
    IN IF NotTip(x, h.numAA) THEN full ELSE full \div 3

SingleAAScore(params, h, t) ==
    SumOver([x \in 0..(h.numAA - 1) |->
                ResiduePropensity(params, h, h.sequences[t[1]][x], x)
              + ResiduePropensity(params, h, h.sequences[t[2]][x], x)
              + ResiduePropensity(params, h, h.sequences[t[3]][x], x)],
            0..(h.numAA - 1))

(* Charge increments of one residue: +1 net for K/R, -1 net for E/D *)
NetOf(r) == IF r = resK \/ r = resR THEN 1
            ELSE IF r = resE \/ r = resD THEN 0 - 1 ELSE 0
TotalOf(r) == IF r = resK \/ r = resR \/ r = resE \/ r = resD THEN 1 ELSE 0

ChainNet(s, numAA) == SumOver([x \in 0..(numAA - 1) |-> NetOf(s[x])], 0..(numAA - 1))
ChainTotal(s, numAA) == SumOver([x \in 0..(numAA - 1) |-> TotalOf(s[x])], 0..(numAA - 1))

(* The counts the charge loop adds for the triple t *)
NetCount(h, t) ==
    ChainNet(h.sequences[t[1]], h.numAA) + ChainNet(h.sequences[t[2]], h.numAA)
  + ChainNet(h.sequences[t[3]], h.numAA)
TotalCount(h, t) ==
    ChainTotal(h.sequences[t[1]], h.numAA) + ChainTotal(h.sequences[t[2]], h.numAA)
  + ChainTotal(h.sequences[t[3]], h.numAA)

(* netCharge[a][b][c][d]++ / --: the loop increments the stored cell, which  *)
(* ScoreHelix does not reset (lines 877-882 reset Propensity, PairWise, Tm)  *)
NetChargeAfter(h, t) == ShortWrap(h.netCharge[t] + NetCount(h, t))
TotalChargeAfter(h, t) == ShortWrap(h.totalCharge[t] + TotalCount(h, t))

(* "Propensity -= ((abs(netCharge) - 6)/3)": abs and the division are int    *)
ChargePenalty(net) ==
    IF Abs(net) > ChargeFree THEN ((Abs(net) - ChargeFree) \div 3) * DegreeUnit ELSE 0

(* The Yaa positions of the helix in increasing order, indexed from 0 *)
YaaPositions(h) ==
    LET S == {x \in 0..(h.numAA - 1) : isYaa(h.XaaPos, x)}
    IN [i \in 0..(Cardinality(S) - 1) |->
           CHOOSE x \in S : Cardinality({y \in S : y < x}) = i]

(* Writing entries 0..i-1 of a thread array leaves its other slots as they were *)
FillThread(old, vals) == vals @@ old

(* Axial / lateral entries of a thread from chain s to chain u, partner at   *)
(* x + axOff and x + latOff, and 0 where the partner position is outside the *)
(* chain ("(x+2) < numAA", "(x-1) >= 0", "(x+5) < numAA")                    *)
AxialEntries(params, h, yaa, s, u, axOff) ==
    [i \in DOMAIN yaa |->
        IF (yaa[i] + axOff) < h.numAA
        THEN params.axial[s[yaa[i]]][u[yaa[i] + axOff]] ELSE 0]

LateralEntries(params, h, yaa, s, u, latOff) ==
    [i \in DOMAIN yaa |->
        IF (yaa[i] + latOff) >= 0 /\ (yaa[i] + latOff) < h.numAA
        THEN params.lateral[s[yaa[i]]][u[yaa[i] + latOff]] ELSE 0]

(* "force *ALL* possible destabilizing interactions": x over 0..numYaa-1 *)
ForcedDestabilizing(XT, LT, numYaa) ==
    SumOver([x \in 0..(numYaa - 1) |->
                (IF XT[x] < 0 THEN XT[x] ELSE 0) + (IF LT[x] < 0 THEN LT[x] ELSE 0)],
            0..(numYaa - 1))

(* One thread: its entries are written over the two thread arrays, the     *)
(* sites 0..numYaa are searched with PairWiseCalc and the negatives are     *)
(* forced; prev holds the arrays and the PairWise sum so far                *)
ThreadStep(prev, Xvals, Lvals, numYaa) ==
    Only({ [PairWise |-> prev.PairWise + Selector(XT, LT, numYaa)
                         + ForcedDestabilizing(XT, LT, numYaa),
            X |-> XT, L |-> LT]
           : XT \in {FillThread(prev.X, Xvals)}, LT \in {FillThread(prev.L, Lvals)} })

(* The pairwise part of one triple.  th carries the two thread arrays, which *)
(* are locals of ScoreHelix reused by every thread of every triple.          *)
PairWiseOf(params, h, t, th) ==
    LET sa == h.sequences[t[1]]
        sb == h.sequences[t[2]]
        sc == h.sequences[t[3]]
        numYaa == h.numAA \div 3
    IN Only({ Only({ Only({
         ThreadStep(second, AxialEntries(params, h, yaa, sc, sa, 5),
                            LateralEntries(params, h, yaa, sc, sa, 2), numYaa)
         : second \in { ThreadStep(first, AxialEntries(params, h, yaa, sb, sc, 2),
                                   LateralEntries(params, h, yaa, sb, sc, 0 - 1), numYaa) } })
         : first \in { ThreadStep([PairWise |-> 0, X |-> th.X, L |-> th.L],
                                  AxialEntries(params, h, yaa, sa, sb, 2),
                                  LateralEntries(params, h, yaa, sa, sb, 0 - 1), numYaa) } })
         : yaa \in {YaaPositions(h)} })

(* TripleHelix::determine_reptition: the Gly count of each track of chain 0 *)
GlyCount(h, track) ==
    Cardinality({x \in 0..(h.numAA - 1) : x % 3 = track /\ h.sequences[0][x] = resG})

(* "if (xCount >= (numAA)/3)": a track qualifies *)
TrackQualifies(h, track) == GlyCount(h, track) >= (h.numAA \div 3)

goodPeptide(h) == \E track \in 0..2 : TrackQualifies(h, track)

(* The three tests run in order and the last one that qualifies sets XaaPos; *)
(* with none, XaaPos keeps the value it had                                  *)
determine_reptition(h) ==
    LET p1 == IF TrackQualifies(h, 0) THEN 1 ELSE h.XaaPos
        p2 == IF TrackQualifies(h, 1) THEN 2 ELSE p1
        p3 == IF TrackQualifies(h, 2) THEN 0 ELSE p2
    IN [h EXCEPT !.XaaPos = p3]

(* The composition filter of the compositionally-correct register *)
CompositionAllowed(numPep, t) ==
    \/ numPep = 1
    \/ numPep = 2 /\ (t[1] # t[2] \/ t[1] # t[3] \/ t[2] # t[3])
    \/ numPep = 3 /\ (t[1] # t[2] /\ t[1] # t[3] /\ t[2] # t[3])

(* "if (Tm >= CCTm)": a triple replaces the running CC register *)
ReplacesCC(tm, CCTm) == tm >= CCTm

(* The best / second-best scan and the CC update at the end of the loop     *)
(* body, for the triple t with the values computed for it                   *)
RecordTriple(acc, t, net, tot, prop, pw) ==
    LET h == acc.h
        tm == prop + pw.PairWise
        reg == <<t[1], t[2], t[3], 0>>
        newBest == tm >= acc.maxTm
        newSecond == ~newBest /\ tm >= acc.secondBestTm
        takeCC == CompositionAllowed(h.numPep, t) /\ ReplacesCC(tm, h.CCTm)
        ccReg == IF h.numPep = 1
                 THEN <<t[1], t[2], t[3], h.CCRegister[4]>>
                 ELSE reg
    IN [h |-> [h EXCEPT !.netCharge[t] = net,
                        !.totalCharge[t] = tot,
                        !.Propensity[t] = prop,
                        !.PairWise[t] = pw.PairWise,
                        !.Tm[t] = tm,
                        !.CCTm = IF takeCC THEN tm ELSE @,
                        !.CCRegister = IF takeCC THEN ccReg ELSE @],
        maxTm |-> IF newBest THEN tm ELSE acc.maxTm,
        bestReg |-> IF newBest THEN reg ELSE acc.bestReg,
        secondBestTm |-> IF newBest THEN acc.maxTm
                         ELSE IF newSecond THEN tm ELSE acc.secondBestTm,
        secondBestReg |-> IF newBest THEN acc.bestReg
                          ELSE IF newSecond THEN reg ELSE acc.secondBestReg,
        X |-> pw.X, L |-> pw.L]

(* Propensity[a][b][c][d] of the triple t: length, termini, residues, charge *)
PropensityOf(params, h, t, net) ==
    LengthBasis(params, h.numAA) + TerminalTerms(h, t)
    + SingleAAScore(params, h, t) - ChargePenalty(net)

(* The body of the enumeration loop for the triple t.  acc holds the helix   *)
(* being written and the locals maxTm, bestReg, secondBestTm, secondBestReg  *)
(* and the two thread arrays.                                                *)
ScoreTriple(params, acc, t) ==
    Only({ Only({ RecordTriple(acc, t, net, tot, prop, pw)
                  : prop \in {PropensityOf(params, acc.h, t, net)},
                    pw \in {PairWiseOf(params, acc.h, t, [X |-> acc.X, L |-> acc.L])} })
           : net \in {NetChargeAfter(acc.h, t)},
             tot \in {TotalChargeAfter(acc.h, t)} })

RECURSIVE ScanTriples(_, _, _, _)
(* "for a, for b, for c, for d < 1": triples k .. n-1 in enumeration order *)
ScanTriples(params, acc, k, n) ==
    IF k >= n THEN acc
    ELSE Only({ ScanTriples(params, next, k + 1, n)
                : next \in {ScoreTriple(params, acc, TripleAt(k, acc.h.numPep))} })

(* 0.5 * abs(CCTm - maxTm) *)
WrongRegisterPenalty(CCTm, maxTm) == Abs(CCTm - maxTm) \div 2

(* A deviation that is the plain difference to the experimental value *)
DeviationPlain(CCRegister, bestRegister, expTm, maxTm, CCTm) == maxTm - expTm

(* The deviation stored at the end of ScoreHelix, lines 1325-1361 *)
Deviation(CCRegister, bestRegister, expTm, maxTm, CCTm) ==
    IF CCRegister[1] = bestRegister[1] /\ CCRegister[2] = bestRegister[2]
       /\ CCRegister[3] = bestRegister[3]
    THEN IF expTm = NoTransition
         THEN (IF maxTm <= NoTransitionCap THEN 0 ELSE maxTm - NoTransitionCap)
         ELSE maxTm - expTm
    ELSE IF expTm = NoTransition
         THEN (IF maxTm <= NoTransitionCap THEN 0 ELSE maxTm - NoTransitionCap)
         ELSE LET base == CCTm - expTm
              IN IF base < 0 THEN base - WrongRegisterPenalty(CCTm, maxTm)
                 ELSE base + WrongRegisterPenalty(CCTm, maxTm)

ZeroGrid == [t \in Triples |-> 0]
ZeroThread == [i \in 0..(ThreadSlots - 1) |-> 0]

(* A register that indexes a cell of the [3][3][3][9] grids (class 0 here) *)
InGrid(reg) == <<reg[1], reg[2], reg[3]>> \in Triples /\ reg[4] = 0

(* "move all values to the helix parameters" and the deviation, from the    *)
(* locals acc left by the enumeration                                       *)
StoreResults(acc, indeterminate) ==
    LET h == acc.h
        bt == <<acc.bestReg[1], acc.bestReg[2], acc.bestReg[3]>>
    IN [h EXCEPT !.HighTm = acc.maxTm,
                 !.bestRegister = acc.bestReg,
                 !.bestPropensity = IF InGrid(acc.bestReg) THEN h.Propensity[bt]
                                    ELSE indeterminate,
                 !.bestPairwise = IF InGrid(acc.bestReg) THEN h.PairWise[bt]
                                  ELSE indeterminate,
                 !.secTm = acc.secondBestTm,
                 !.secRegister = acc.secondBestReg,
                 !.specificity = acc.maxTm - acc.secondBestTm,
                 !.deviation = Deviation(h.CCRegister, acc.bestReg, h.expTm,
                                         acc.maxTm, h.CCTm)]

(* ScoreHelix(parameters, theHelix).  indeterminate is the value read when   *)
(* bestRegister still holds its sentinel (6,6,6,11) and                      *)
(* Propensity[6][6][6][11] is read outside the array.                        *)
ScoreHelix(params, theHelix, indeterminate) ==
    Only({ StoreResults(acc, indeterminate)
           : acc \in { ScanTriples(params,
                          [h |-> [theHelix EXCEPT !.Propensity = ZeroGrid,
                                                  !.PairWise = ZeroGrid,
                                                  !.Tm = ZeroGrid,
                                                  !.CCTm = InitCCTm,
                                                  !.CCRegister = InitCCRegister],
                           maxTm |-> InitMaxTm, bestReg |-> InitBestReg,
                           secondBestTm |-> InitSecondBestTm,
                           secondBestReg |-> InitSecondBestReg,
                           X |-> ZeroThread, L |-> ZeroThread],
                          0, theHelix.numPep * theHelix.numPep * theHelix.numPep) } })

(* Whether a call of ScoreHelix on theHelix reads outside the grids *)
ReadsOutsideGrid(scored) == ~InGrid(scored.bestRegister)

----------------------------------------------------------------------------
(* Inputs of the scorer: chains, samples and parameter sets                 *)

MinAA == 21

(* A chain of numAA residues repeating one triad *)
Repeat(triad, numAA) == [x \in 0..(numAA - 1) |-> triad[(x % 3) + 1]]

ChainPOG == Repeat(<<resP, resO, resG>>, MinAA)
ChainPKG == Repeat(<<resP, resK, resG>>, MinAA)
ChainEOG == Repeat(<<resE, resO, resG>>, MinAA)
ChainGPO == Repeat(<<resG, resP, resO>>, MinAA)
ChainEKG == Repeat(<<resE, resK, resG>>, MinAA)

(* Values an uninitialized short can hold: userHelix and userLib are never  *)
(* passed to initializeAll, and initializeAll does not set XaaPos           *)
IndeterminateShorts == {0, 3}

(* Value read by an out-of-range read of a double *)
IndeterminateDouble == {0, 60}

(* The helices a call ScoreHelix(params, &h) can leave in h: one, or one per  *)
(* value of the out-of-range read                                            *)
ScoreResults(params, h) ==
    UNION { IF ReadsOutsideGrid(scored)
            THEN { [scored EXCEPT !.bestPropensity = g, !.bestPairwise = g]
                   : g \in IndeterminateDouble }
            ELSE {scored}
            : scored \in {ScoreHelix(params, h, 0)} }

(* A TripleHelix as readLibrary (or the prompts of use case 1) fills it:    *)
(* the derived fields are those of initializeAll, the charge cells hold     *)
(* charge0 (0 after initializeAll, indeterminate for userHelix / userLib)   *)
LoadedHelix(chains, Nterm, Cterm, expTm, charge0, XaaPos0) ==
    determine_reptition(
      [numPep |-> Len(chains),
       numAA |-> Cardinality(DOMAIN chains[1]),
       sequences |-> [a \in 0..(Len(chains) - 1) |-> chains[a + 1]],
       Nterm |-> Nterm, Cterm |-> Cterm,
       expTm |-> expTm, CCTm |-> 0, HighTm |-> 0, deviation |-> 0,
       secTm |-> 0, specificity |-> 0,
       bestRegister |-> <<0, 0, 0, 0>>, secRegister |-> <<0, 0, 0, 0>>,
       CCRegister |-> <<0, 0, 0, 0>>,
       netCharge |-> [t \in Triples |-> charge0],
       totalCharge |-> [t \in Triples |-> charge0],
       bestPropensity |-> 0, bestPairwise |-> 0,
       Propensity |-> ZeroGrid, PairWise |-> ZeroGrid, Tm |-> ZeroGrid,
       XaaPos |-> XaaPos0])

OnePepShapes ==
    { <<<<ChainPOG>>, "n", "c">>,
      <<<<ChainPKG>>, "ac", "am">>,
      <<<<ChainGPO>>, "ac", "am">> }
TwoPepShapes ==
    { <<<<ChainPOG, ChainPKG>>, "ac", "am">>,
      <<<<ChainPKG, ChainEOG>>, "n", "am">> }
ThreePepShapes ==
    { <<<<ChainPOG, ChainPKG, ChainEOG>>, "ac", "c">> }

(* 1-chain samples of 27 residues: each pair of terminus codes on the phase *)
(* that starts at Xaa, and the other two phases with capped termini         *)
ExampleAA == MinAA + 6
ExampleShapes ==
    { <<<<Repeat(<<resP, resO, resG>>, ExampleAA)>>, "ac", "am">>,
      <<<<Repeat(<<resP, resO, resG>>, ExampleAA)>>, "n", "am">>,
      <<<<Repeat(<<resP, resO, resG>>, ExampleAA)>>, "ac", "c">>,
      <<<<Repeat(<<resG, resP, resO>>, ExampleAA)>>, "ac", "am">>,
      <<<<Repeat(<<resO, resG, resP>>, ExampleAA)>>, "ac", "am">> }

ExpTmChoices == {NoTransition, 1800}

(* ReadParameters zeroes every table before reading the files *)
ZeroTable == [x \in Residues |-> 0]
ZeroMatrix == [x \in Residues |-> [y \in Residues |-> 0]]
NoneTunable == [x \in Residues |-> FALSE]
NoCellTunable == [x \in Residues |-> [y \in Residues |-> FALSE]]

ParamsZero ==
    [A |-> 0, B |-> 0, C |-> 0,
     propensityX |-> ZeroTable, propensityY |-> ZeroTable,
     axial |-> ZeroMatrix, lateral |-> ZeroMatrix,
     optPropX |-> NoneTunable, optPropY |-> NoneTunable,
     optAxial |-> NoCellTunable, optLat |-> NoCellTunable,
     exPropensityX |-> ZeroTable, exPropensityY |-> ZeroTable,
     exAxial |-> ZeroMatrix, exLateral |-> ZeroMatrix]

(* A parameter file with a length model, propensities and contacts *)
ParamsTypical ==
    [ParamsZero EXCEPT
        !.A = 0 - 4800, !.B = 450, !.C = 0 - 6,
        !.propensityX[resP] = 60, !.propensityX[resE] = 0 - 30,
        !.propensityY[resO] = 120, !.propensityY[resK] = 0 - 60,
        !.axial[resK][resE] = 180, !.axial[resO][resE] = 0 - 12,
        !.axial[resK][resP] = 30,
        !.lateral[resK][resE] = 90, !.lateral[resO][resP] = 0 - 6,
        !.lateral[resK][resP] = 24]

(* The same file with strong charge-pair contacts *)
ParamsPairs ==
    [ParamsTypical EXCEPT !.axial[resK][resE] = 600, !.lateral[resK][resE] = 300,
                          !.propensityY[resO] = 0]

(* The same file with a length constant of -2000 degrees *)
ParamsLow == [ParamsTypical EXCEPT !.A = 0 - 120000]

ParameterChoices == {ParamsZero, ParamsTypical, ParamsPairs, ParamsLow}

----------------------------------------------------------------------------
(* Specification of the scorer: one sample is scored (main.cpp:2246, 1374)  *)
(* and scored again, either as it is (a rescoring pass, main.cpp:1934) or   *)
(* after a single-residue edit (main.cpp:2411-2416).                        *)

MaxScoreCalls == 2
EditPositions == {4}
EditResidues == {resE}

IdlePW == XPW = <<>> /\ LPW = <<>> /\ pwResult = "none" /\ pwPhase = "idle"

(* Use case 0 is not running *)
IdleCal ==
    /\ Library = "none" /\ workers = "none" /\ passStart = "none"
    /\ sumSquaredDev = 0 /\ NewSumSquaredDev = 0
    /\ improved = FALSE /\ improvedRound = FALSE /\ done = FALSE
    /\ round = 0 /\ cursor = 0 /\ slot = "none"
    /\ allowOptimization = FALSE /\ pc = "none"
    /\ exactValue = "none" /\ history = "none"

(* No library file is being read *)
IdleLoad == loader = "none"

(* The inputs: <<shape, parameter set, expTm, initial content of the charge  *)
(* cells>>.  The larger samples are drawn with fewer combinations.           *)
ScoreCases ==
    (OnePepShapes \X ParameterChoices \X ExpTmChoices \X IndeterminateShorts)
    \cup (TwoPepShapes \X ParameterChoices \X ExpTmChoices \X {0})
    \cup (ThreePepShapes \X {ParamsTypical, ParamsLow} \X {1800} \X {0})
    \cup (ExampleShapes \X {ParamsZero} \X ExpTmChoices \X {0})

InitScore ==
    /\ IdlePW
    /\ IdleCal
    /\ IdleLoad
    /\ \E c \in ScoreCases :
          /\ parameters = c[2]
          /\ userHelix = LoadedHelix(c[1][1], c[1][2], c[1][3], c[3], c[4], 0)
    /\ scoreCalls = 0

(* One call of ScoreHelix on the helix *)
ScoreCall(h) == userHelix' \in ScoreResults(parameters, h)

ScoreUserHelix ==
    /\ pwPhase = "idle"
    /\ scoreCalls < MaxScoreCalls
    /\ ScoreCall(userHelix)
    /\ scoreCalls' = scoreCalls + 1
    /\ UNCHANGED <<pwVars, parameters, calVars, loader>>

(* "cin >> userHelix.sequences[changePep][changeAA]; ScoreHelix(...)" *)
EditAndRescore ==
    /\ pwPhase = "idle"
    /\ scoreCalls >= 1
    /\ scoreCalls < MaxScoreCalls
    /\ \E changePep \in 0..(userHelix.numPep - 1), changeAA \in EditPositions,
          r \in EditResidues :
          /\ userHelix.sequences[changePep][changeAA] # r
          /\ ScoreCall([userHelix EXCEPT !.sequences[changePep][changeAA] = r])
    /\ scoreCalls' = scoreCalls + 1
    /\ UNCHANGED <<pwVars, parameters, calVars, loader>>

NextScore == ScoreUserHelix \/ EditAndRescore

SpecScore == InitScore /\ [][NextScore]_vars

----------------------------------------------------------------------------
(* Use case 0: the first scoring of the library and the calibration loop,   *)
(* main.cpp:1729-2181                                                       *)

delta == 6          \* double delta = 0.1
maxRounds == 25     \* short maxRounds = 25
maxDev == 120       \* double maxDev = 2.0

(* The scalars of the parameter set that the loop visits *)
SlotKinds == {"propensityX", "propensityY", "axial", "lateral"}

(* The scalars with their optimization flag set *)
Tunable(params) ==
    { [kind |-> "propensityX", x |-> r, y |-> 0] : r \in {q \in Residues : params.optPropX[q]} }
    \cup { [kind |-> "propensityY", x |-> r, y |-> 0]
           : r \in {q \in Residues : params.optPropY[q]} }
    \cup { [kind |-> "axial", x |-> c[1], y |-> c[2]]
           : c \in {q \in Residues \X Residues : params.optAxial[q[1]][q[2]]} }
    \cup { [kind |-> "lateral", x |-> c[1], y |-> c[2]]
           : c \in {q \in Residues \X Residues : params.optLat[q[1]][q[2]]} }

(* Position of a scalar in "for x { propensityX[x]; propensityY[x];          *)
(* for y { axial[x][y]; lateral[x][y] } }"                                   *)
VisitRank(s) ==
    s.x * (2 + 2 * NumResidueSlots)
    + (IF s.kind = "propensityX" THEN 0
       ELSE IF s.kind = "propensityY" THEN 1
       ELSE IF s.kind = "axial" THEN 2 + 2 * s.y
       ELSE 3 + 2 * s.y)

ScalarOf(params, s) ==
    IF s.kind = "propensityX" THEN params.propensityX[s.x]
    ELSE IF s.kind = "propensityY" THEN params.propensityY[s.x]
    ELSE IF s.kind = "axial" THEN params.axial[s.x][s.y]
    ELSE params.lateral[s.x][s.y]

(* The experimental value the scalar is kept close to *)
ExOf(params, s) ==
    IF s.kind = "propensityX" THEN params.exPropensityX[s.x]
    ELSE IF s.kind = "propensityY" THEN params.exPropensityY[s.x]
    ELSE IF s.kind = "axial" THEN params.exAxial[s.x][s.y]
    ELSE params.exLateral[s.x][s.y]

WithScalar(params, s, v) ==
    IF s.kind = "propensityX" THEN [params EXCEPT !.propensityX[s.x] = v]
    ELSE IF s.kind = "propensityY" THEN [params EXCEPT !.propensityY[s.x] = v]
    ELSE IF s.kind = "axial" THEN [params EXCEPT !.axial[s.x][s.y] = v]
    ELSE [params EXCEPT !.lateral[s.x][s.y] = v]

(* The double a decimal of the parameter file is read as, for a value given *)
(* in sixtieths of a degree                                                  *)
DoubleOf(units) == FromRatio(units, DegreeUnit)

(* "if (value >= (ex - maxDev))" and "if (value <= (ex + maxDev))", on the   *)
(* doubles value and ex                                                      *)
InRangeBelow(value, ex) ==
    \E bound \in {FSub(ex, DoubleOf(maxDev))} : FLeq(bound, value)
InRangeAbove(value, ex) ==
    \E bound \in {FAdd(ex, DoubleOf(maxDev))} : FLeq(value, bound)

TotalHelices == Cardinality(DOMAIN Library)

WorkerIds == {1, 2}

(* Both threads start at sample 0 *)
WorkerStartShared(w, total) == 0

(* thread th1(ScoreLibrary, 0, TotalHelices/2, ...);                         *)
(* thread th2(ScoreLibrary, TotalHelices/2, TotalHelices, ...)               *)
WorkerStart(w, total) == IF w = 1 THEN 0 ELSE total \div 2

(* The first thread stops at the rounded-up half *)
WorkerStopRoundedUp(w, total) == IF w = 1 THEN (total + 1) \div 2 ELSE total

WorkerStop(w, total) == IF w = 1 THEN total \div 2 ELSE total

(* The second thread is handed the parameters as they were read *)
LaunchStale(params, total) ==
    [w \in WorkerIds |-> [next |-> WorkerStart(w, total),
                          stop |-> WorkerStop(w, total),
                          params |-> IF w = 1 THEN params ELSE history.mask,
                          wrote |-> <<>>]]

(* The two threads as they are created: parameters is copied into each *)
Launch(params, total) ==
    [w \in WorkerIds |-> [next |-> WorkerStart(w, total),
                          stop |-> WorkerStop(w, total),
                          params |-> params,
                          wrote |-> <<>>]]

(* th1.join(); th2.join() return *)
AllJoined == \A w \in WorkerIds : workers[w].next >= workers[w].stop

(* "for (n...) NewSumSquaredDev += (Library[n].deviation * Library[n].deviation)" *)
SumSquares(Lib) ==
    SumOver([n \in DOMAIN Lib |-> Lib[n].deviation * Lib[n].deviation], DOMAIN Lib)

(* A trial is kept whenever it changes the total *)
AcceptsAnyChange(new, old) == new # old

(* "if (NewSumSquaredDev < sumSquaredDev)" *)
Accepts(new, old) == new < old

PassStates == {"initialPass", "decreasePass", "increasePass"}

(* Before the first trial: no scalar under trial, no thread created, no     *)
(* double read, nothing recorded                                             *)
NoSlot == [kind |-> "none", x |-> 0, y |-> 0]
NoWorkers ==
    [w \in WorkerIds |-> [next |-> 0, stop |-> 0, params |-> ParamsZero, wrote |-> <<>>]]
NoValues == [s \in {} |-> FZero]
NoHistory ==
    [start |-> ParamsZero, startValue |-> FZero, visited |-> <<>>, passes |-> 0,
     count |-> [propensityX |-> ZeroTable, propensityY |-> ZeroTable,
                axial |-> ZeroMatrix, lateral |-> ZeroMatrix],
     mask |-> ParamsZero, roundStart |-> ParamsZero, changed |-> FALSE]

(* "if (countInteractions...[y] > 25)" *)
MinCount == 25

(* The residues counted as Xaa or Yaa propensities: one entry per sample n,  *)
(* chain a and position x                                                    *)
PropensitySites(Lib) ==
    UNION { { <<n, a, x>> : a \in 0..(Lib[n].numPep - 1), x \in 0..(Lib[n].numAA - 1) }
            : n \in DOMAIN Lib }

CountPropensityX(Lib, sites, r) ==
    Cardinality({ o \in sites : /\ isXaa(Lib[o[1]].XaaPos, o[3])
                                /\ Lib[o[1]].sequences[o[2]][o[3]] = r })
CountPropensityY(Lib, sites, r) ==
    Cardinality({ o \in sites : /\ isYaa(Lib[o[1]].XaaPos, o[3])
                                /\ Lib[o[1]].sequences[o[2]][o[3]] = r })

(* The increments of the pair counts: one entry per sample n, chains a, b,   *)
(* c, Yaa position x and statement k of the three of each matrix            *)
PairSites(Lib) ==
    UNION { { <<n, a, b, c, x, k>> :
                a \in 0..(Lib[n].numPep - 1), b \in 0..(Lib[n].numPep - 1),
                c \in 0..(Lib[n].numPep - 1),
                x \in {q \in 0..(Lib[n].numAA - 1) : isYaa(Lib[n].XaaPos, q)},
                k \in 1..3 }
            : n \in DOMAIN Lib }

(* The cell an increment of countInteractions.axial adds to, <<>> when its   *)
(* guard fails                                                               *)
AxialCell(Lib, o) ==
    LET h == Lib[o[1]]
        a == o[2]  b == o[3]  c == o[4]  x == o[5]
    IN IF o[6] = 1
       THEN (IF x + 2 < h.numAA THEN <<h.sequences[a][x], h.sequences[b][x + 2]>> ELSE <<>>)
       ELSE IF o[6] = 2
       THEN (IF x + 2 < h.numAA THEN <<h.sequences[b][x], h.sequences[c][x + 2]>> ELSE <<>>)
       ELSE (IF x + 5 < h.numAA THEN <<h.sequences[c][x], h.sequences[a][x + 5]>> ELSE <<>>)

(* The same for countInteractions.lateral *)
LateralCell(Lib, o) ==
    LET h == Lib[o[1]]
        a == o[2]  b == o[3]  c == o[4]  x == o[5]
    IN IF o[6] = 1
       THEN (IF x > 1 THEN <<h.sequences[a][x], h.sequences[b][x - 1]>> ELSE <<>>)
       ELSE IF o[6] = 2
       THEN (IF x > 1 THEN <<h.sequences[b][x], h.sequences[c][x - 1]>> ELSE <<>>)
       ELSE (IF x + 2 < h.numAA THEN <<h.sequences[c][x], h.sequences[a][x + 2]>> ELSE <<>>)

(* countInteractions after the counting loops *)
CountInteractions(Lib) ==
    Only({ Only({ [propensityX |-> [r \in Residues |-> CountPropensityX(Lib, st[1], r)],
                   propensityY |-> [r \in Residues |-> CountPropensityY(Lib, st[1], r)],
                   axial |-> [y \in Residues |-> [x \in Residues |->
                                Cardinality({o \in st[2] : cells[1][o] = <<y, x>>})]],
                   lateral |-> [y \in Residues |-> [x \in Residues |->
                                Cardinality({o \in st[2] : cells[2][o] = <<y, x>>})]]]
                  : cells \in { << [o \in st[2] |-> AxialCell(Lib, o)],
                                   [o \in st[2] |-> LateralCell(Lib, o)] >> } })
           : st \in { <<PropensitySites(Lib), PairSites(Lib)>> } })

(* "Set optimization by counts" and the forced exclusions, lines 1660-1684 *)
SetOptimization(params, count) ==
    [params EXCEPT
       !.optPropX = [y \in Residues |->
                       IF y = resP THEN FALSE
                       ELSE params.optPropX[y] \/ count.propensityX[y] > MinCount],
       !.optPropY = [y \in Residues |->
                       IF y = resO THEN FALSE
                       ELSE params.optPropY[y] \/ count.propensityY[y] > MinCount],
       !.optLat = [y \in Residues |-> [x \in Residues |->
                     IF y = resO \/ x = resP THEN FALSE
                     ELSE params.optLat[y][x] \/ count.lateral[y][x] > MinCount]],
       !.optAxial = [y \in Residues |-> [x \in Residues |->
                       IF y = resO \/ y = resP \/ x = resP THEN FALSE
                       ELSE params.optAxial[y][x] \/ count.axial[y][x] > MinCount]]]

(* The eligibility pass: the counts over the library, then the flags.  The   *)
(* doubles are those ReadParameters stored.                                  *)
EligibilityPass ==
    /\ pc = "count"
    /\ \E count \in {CountInteractions(Library)} :
        \E flagged \in {SetOptimization(parameters, count)} :
          /\ parameters' = flagged
          /\ exactValue' = [s \in Tunable(flagged) |-> DoubleOf(ScalarOf(flagged, s))]
          /\ history' = [NoHistory EXCEPT !.count = count, !.mask = parameters]
    /\ pc' = "start"
    /\ UNCHANGED <<pwVars, userHelix, scoreCalls, Library, workers, passStart, loopVars,
                   allowOptimization, loader>>

(* The first scoring of the library: the two threads are created *)
StartInitialPass ==
    /\ pc = "start"
    /\ workers' = Launch(parameters, TotalHelices)
    /\ passStart' = Library
    /\ pc' = "initialPass"
    /\ UNCHANGED <<pwVars, scoreVars, Library, loopVars, allowOptimization,
                   trialVars, loader>>

(* One iteration of the loop of ScoreLibrary in thread w: ScoreHelix on its  *)
(* next sample, with the thread's copy of the parameters.  The call touches  *)
(* that sample and locals only.                                              *)
WorkerScores(w) ==
    /\ pc \in PassStates
    /\ workers[w].next < workers[w].stop
    /\ \E scored \in ScoreResults(workers[w].params, Library[workers[w].next]) :
          Library' = [Library EXCEPT ![workers[w].next] = scored]
    /\ workers' = [workers EXCEPT ![w].next = @ + 1,
                                  ![w].wrote = Append(@, workers[w].next)]
    /\ UNCHANGED <<pwVars, scoreVars, passStart, loopVars, allowOptimization, pc,
                   trialVars, loader>>

(* After the joins of the first scoring: the total, then lines 1778-1783.    *)
(* Line 1783 reads "done = true; // ie don't make changes! Comment this out  *)
(* to allow optimization.": allowOptimization tells whether it was.          *)
JoinInitialPass ==
    /\ pc = "initialPass"
    /\ AllJoined
    /\ sumSquaredDev' = SumSquares(Library)
    /\ NewSumSquaredDev' = 0
    /\ round' = 0
    /\ improved' = FALSE
    /\ improvedRound' = FALSE
    /\ done' = ~allowOptimization
    /\ pc' = "while"
    /\ UNCHANGED <<pwVars, scoreVars, Library, workers, passStart, cursor, slot,
                   allowOptimization, trialVars, loader>>

(* The loop is entered whatever done holds *)
EnterRoundUnguarded ==
    /\ pc = "while"
    /\ cursor' = 0
    /\ history' = [history EXCEPT !.visited = <<>>, !.roundStart = parameters]
    /\ pc' = "visit"
    /\ UNCHANGED <<pwVars, scoreVars, Library, workers, passStart, sumSquaredDev,
                   NewSumSquaredDev, improved, improvedRound, done, round, slot,
                   allowOptimization, exactValue, loader>>

(* "while (not done)" is entered: x = 0 *)
EnterRound ==
    /\ pc = "while"
    /\ ~done
    /\ cursor' = 0
    /\ history' = [history EXCEPT !.visited = <<>>, !.roundStart = parameters]
    /\ pc' = "visit"
    /\ UNCHANGED <<pwVars, scoreVars, Library, workers, passStart, sumSquaredDev,
                   NewSumSquaredDev, improved, improvedRound, done, round, slot,
                   allowOptimization, exactValue, loader>>

(* "while (not done)" is left *)
LeaveLoop ==
    /\ pc = "while"
    /\ done
    /\ pc' = "finished"
    /\ UNCHANGED <<pwVars, scoreVars, Library, workers, passStart, loopVars,
                   allowOptimization, trialVars, loader>>

(* The tunable scalars not yet visited in this round *)
Remaining == {s \in Tunable(parameters) : VisitRank(s) >= cursor}

NextSlot == CHOOSE s \in Remaining : \A t \in Remaining : VisitRank(s) <= VisitRank(t)

(* The loops advance to the next scalar whose flag is set: it is lowered by  *)
(* delta and, if still in range, the library is rescored                     *)
TryDecrease ==
    /\ pc = "visit"
    /\ Remaining # {}
    /\ \E s \in {NextSlot} :
        \E lowered \in {WithScalar(parameters, s, ScalarOf(parameters, s) - delta)},
           value \in {FSub(exactValue[s], DoubleOf(delta))} :
          /\ parameters' = lowered
          /\ exactValue' = [exactValue EXCEPT ![s] = value]
          /\ slot' = s
          /\ cursor' = VisitRank(s)
          /\ NewSumSquaredDev' = 0
          /\ IF InRangeBelow(value, DoubleOf(ExOf(parameters, s)))
             THEN /\ workers' = Launch(lowered, TotalHelices)
                  /\ passStart' = Library
                  /\ pc' = "decreasePass"
                  /\ history' = [history EXCEPT !.start = parameters,
                                                !.startValue = exactValue[s],
                                                !.visited = Append(@, s),
                                                !.passes = 1]
             ELSE /\ pc' = "afterDecrease"
                  /\ history' = [history EXCEPT !.start = parameters,
                                                !.startValue = exactValue[s],
                                                !.visited = Append(@, s),
                                                !.passes = 0]
                  /\ UNCHANGED <<workers, passStart>>
    /\ UNCHANGED <<pwVars, userHelix, scoreCalls, Library, sumSquaredDev, improved,
                   improvedRound, done, round, allowOptimization, loader>>

(* After the joins of a trial: the new total and the test that keeps it *)
JoinTrial(from, to) ==
    /\ pc = from
    /\ AllJoined
    /\ \E new \in {SumSquares(Library)} :
          /\ NewSumSquaredDev' = new
          /\ IF Accepts(new, sumSquaredDev)
             THEN /\ sumSquaredDev' = new
                  /\ improved' = TRUE
                  /\ improvedRound' = TRUE
             ELSE UNCHANGED <<sumSquaredDev, improved, improvedRound>>
    /\ pc' = to
    /\ UNCHANGED <<pwVars, scoreVars, Library, workers, passStart, done, round,
                   cursor, slot, allowOptimization, trialVars, loader>>

JoinDecrease == JoinTrial("decreasePass", "afterDecrease")

(* "if (not improved)": the scalar is raised by delta twice and, if still in *)
(* range, the library is rescored                                            *)
TryIncrease ==
    /\ pc = "afterDecrease"
    /\ ~improved
    /\ \E raised \in {WithScalar(parameters, slot,
                                ScalarOf(parameters, slot) + delta + delta)},
          once \in {FAdd(exactValue[slot], DoubleOf(delta))} :
        \E value \in {FAdd(once, DoubleOf(delta))} :
          /\ parameters' = raised
          /\ exactValue' = [exactValue EXCEPT ![slot] = value]
          /\ NewSumSquaredDev' = 0
          /\ IF InRangeAbove(value, DoubleOf(ExOf(parameters, slot)))
             THEN /\ workers' = Launch(raised, TotalHelices)
                  /\ passStart' = Library
                  /\ pc' = "increasePass"
                  /\ history' = [history EXCEPT !.passes = @ + 1]
             ELSE /\ pc' = "afterIncrease"
                  /\ UNCHANGED <<workers, passStart, history>>
    /\ UNCHANGED <<pwVars, userHelix, scoreCalls, Library, sumSquaredDev, improved,
                   improvedRound, done, round, cursor, slot, allowOptimization, loader>>

JoinIncrease == JoinTrial("increasePass", "afterIncrease")

(* The second "if (not improved)" puts the scalar back; "improved = false"   *)
(* and the loops move on                                                     *)
CloseSlot ==
    /\ (pc = "afterDecrease" /\ improved) \/ pc = "afterIncrease"
    /\ parameters' = IF improved THEN parameters
                     ELSE WithScalar(parameters, slot, ScalarOf(parameters, slot) - delta)
    /\ exactValue' = IF improved THEN exactValue
                     ELSE [exactValue EXCEPT ![slot] = FSub(@, DoubleOf(delta))]
    /\ improved' = FALSE
    /\ cursor' = cursor + 1
    /\ slot' = NoSlot
    /\ pc' = "visit"
    /\ UNCHANGED <<pwVars, userHelix, scoreCalls, Library, workers, passStart,
                   sumSquaredDev, NewSumSquaredDev, improvedRound, done, round,
                   allowOptimization, history, loader>>

(* The loop goes on until the round limit, whether or not a round improved *)
LoopEndsAtLimit(roundImproved, nextRound) == nextRound >= maxRounds

(* "if (not improvedRound) done = true; ... round++;                         *)
(*  if (round >= maxRounds) done = true;"                                    *)
LoopEnds(roundImproved, nextRound) == ~roundImproved \/ nextRound >= maxRounds

(* The loops over x and y are exhausted: lines 2176-2180 *)
EndRound ==
    /\ pc = "visit"
    /\ Remaining = {}
    /\ done' = LoopEnds(improvedRound, round + 1)
    /\ improved' = FALSE
    /\ improvedRound' = FALSE
    /\ round' = round + 1
    /\ history' = [history EXCEPT !.changed = (parameters # history.roundStart)]
    /\ pc' = "while"
    /\ UNCHANGED <<pwVars, scoreVars, Library, workers, passStart, sumSquaredDev,
                   NewSumSquaredDev, cursor, slot, allowOptimization, exactValue, loader>>

(* Training libraries of one-chain samples with measured melting            *)
(* temperatures; Library is initialized by initializeAll (main.cpp:1548)    *)
LibraryThree ==
    << LoadedHelix(<<ChainPKG>>, "ac", "am", 1500, 0, 0),
       LoadedHelix(<<ChainEKG>>, "ac", "am", 3600, 0, 0),
       LoadedHelix(<<ChainEOG>>, "n", "c", 2400, 0, 0) >>

LibraryFour ==
    << LoadedHelix(<<ChainPKG>>, "ac", "am", 600, 0, 0),
       LoadedHelix(<<ChainEKG>>, "ac", "am", 3900, 0, 0),
       LoadedHelix(<<ChainEOG>>, "n", "c", 2400, 0, 0),
       LoadedHelix(<<ChainPOG>>, "n", "c", 4800, 0, 0) >>

(* Two samples of the same chain: the K-E contacts are counted 34 (axial)   *)
(* and 36 (lateral) times                                                    *)
LibraryTwin ==
    << LoadedHelix(<<ChainEKG>>, "ac", "am", 3900, 0, 0),
       LoadedHelix(<<ChainEKG>>, "ac", "am", 3600, 0, 0) >>

(* A single sample for which no transition was observed *)
LibraryOne == << LoadedHelix(<<ChainEKG>>, "ac", "am", NoTransition, 0, 0) >>

(* The parameter file of ParamsTypical with four scalars flagged for         *)
(* optimization: one at the lower end of its window, two inside, one at the  *)
(* upper end                                                                 *)
ParamsCalibrate ==
    [ParamsTypical EXCEPT
        !.optPropX[resE] = TRUE, !.exPropensityX[resE] = 0 - 30,
        !.optPropY[resK] = TRUE, !.exPropensityY[resK] = 60,
        !.optAxial[resK][resE] = TRUE, !.exAxial[resK][resE] = 180,
        !.optLat[resK][resE] = TRUE, !.exLateral[resK][resE] = 0 - 30]

(* The parameter file of ParamsTypical with three scalars flagged in        *)
(* opt_list.txt: a Yaa propensity of 4.0 at its reference value, an Xaa     *)
(* propensity at the lower end of its window and a Yaa propensity 4.0 above *)
(* its reference value                                                       *)
ParamsTrial ==
    [ParamsTypical EXCEPT
        !.optPropY[resD] = TRUE, !.propensityY[resD] = 240,
        !.exPropensityY[resD] = 240,
        !.optPropX[resE] = TRUE, !.exPropensityX[resE] = 90,
        !.optPropY[resK] = TRUE, !.exPropensityY[resK] = 0 - 300]

(* The runs of use case 0: <<training library, parameter files>> *)
CalCases ==
    { <<LibraryThree, ParamsCalibrate>>, <<LibraryFour, ParamsCalibrate>>,
      <<LibraryTwin, ParamsTypical>>, <<LibraryOne, ParamsTrial>> }

InitCal ==
    /\ IdlePW
    /\ userHelix = "none"
    /\ scoreCalls = 0
    /\ \E c \in CalCases :
          /\ parameters = c[2]
          /\ Library = [n \in 0..(Len(c[1]) - 1) |-> c[1][n + 1]]
          /\ passStart = [n \in 0..(Len(c[1]) - 1) |-> c[1][n + 1]]
    /\ workers = NoWorkers
    /\ sumSquaredDev = 0 /\ NewSumSquaredDev = 0
    /\ improved = FALSE /\ improvedRound = FALSE /\ done = FALSE
    /\ round = 0 /\ cursor = 0 /\ slot = NoSlot
    /\ allowOptimization \in BOOLEAN
    /\ pc = "count"
    /\ exactValue = NoValues /\ history = NoHistory
    /\ IdleLoad

NextCal ==
    \/ EligibilityPass
    \/ StartInitialPass
    \/ \E w \in WorkerIds : WorkerScores(w)
    \/ JoinInitialPass
    \/ EnterRound
    \/ LeaveLoop
    \/ TryDecrease
    \/ JoinDecrease
    \/ TryIncrease
    \/ JoinIncrease
    \/ CloseSlot
    \/ EndRound

SpecCal == InitCal /\ [][NextCal]_vars

(* main and the two threads are ordinary threads that the scheduler keeps    *)
(* running: a step that stays possible is eventually taken                   *)
SpecCalFair == SpecCal /\ WF_vars(NextCal)

----------------------------------------------------------------------------
(* Reading a library file: readLibrary, main.cpp:1388-1456, and its two     *)
(* calls in main, lines 1548-1558 (training library) and 2425-2434 (user    *)
(* library)                                                                  *)

LibraryCapacity == 500   \* TripleHelix Library[500]
UserCapacity == 100      \* TripleHelix userLib[100]
MaxAA == 48              \* "(Lib[n].numAA < 21) || (Lib[n].numAA>48)"
SkipLimit == 50          \* "if (x>50)"
SequenceRow == 100       \* char sequences[3][100]

Capacity(target) == IF target = "training" THEN LibraryCapacity ELSE UserCapacity

(* A library file: the declared number of samples, the number of items the  *)
(* file holds, and the one item, if any, whose head is not that of a well   *)
(* formed sample                                                             *)
LibFile(target, declared, present, badAt, bad) ==
    [target |-> target, declared |-> declared, present |-> present,
     badAt |-> badAt, bad |-> bad]

(* What "seq_input >> Lib[n].numPep; ... seq_input >> Lib[n].numAA" read at *)
(* item i: past the end of the file the extraction fails and stores 0; a    *)
(* line that reads as 0 is a comment line                                    *)
ItemAt(f, i) ==
    IF i >= f.present THEN <<0, 0>>
    ELSE IF i = f.badAt THEN f.bad
    ELSE <<1 + (i % 3), MinAA + 3 * (i % 2)>>

(* "while (Lib[n].numPep == 0) { getline; seq_input >> Lib[n].numPep; x++;  *)
(* if (x>50) return 0; }": the item whose numPep is kept, -1 when the loop  *)
(* returns 0                                                                 *)
SkipTo(f, pos) ==
    Only({ IF heads = {} THEN 0 - 1 ELSE Least(heads)
           : heads \in { {i \in pos..(pos + SkipLimit) : ItemAt(f, i)[1] # 0} } })

(* The tests of lines 1426 and 1436 *)
PepRejected(head) == head[1] < 1 \/ head[1] > 3
AARejected(head) == head[2] < MinAA \/ head[2] > MaxAA

(* "Lib[n-1].dissect(); Lib[n].dissect();" before "return 0": dissect reads *)
(* sequences[x][y] for x < numPep, y < numAA.  The reads leave the array    *)
(* for n = 0 (Lib[-1]) and for a row longer than the row of sequences; in   *)
(* the user library, which is never initialized, numAA is indeterminate     *)
(* when numPep is rejected.                                                  *)
DissectUndefined(l, head) ==
    \/ l.n = 0
    \/ PepRejected(head) /\ l.file.target = "user"
    \/ ~PepRejected(head) /\ head[2] > SequenceRow

(* The ways the iteration for sample n can go: a store outside the array    *)
(* and a read outside an array are undefined, the program goes on or is     *)
(* terminated                                                                *)
SampleFates(l, i, head) ==
    (IF l.n >= Capacity(l.file.target) THEN {"trap", "outside"} ELSE {"inside"})
    \X (IF i >= 0 /\ (PepRejected(head) \/ AARejected(head)) /\ DissectUndefined(l, head)
        THEN {"returns", "crashes"} ELSE {"returns"})

AfterSample(l, i, head, fate) ==
    IF fate[1] = "trap" THEN [l EXCEPT !.status = "crashed"]
    ELSE IF i < 0
    THEN [l EXCEPT !.status = "returned", !.result = 0, !.head = <<0, 0>>,
                   !.outside = @ \/ fate[1] = "outside"]
    ELSE IF PepRejected(head) \/ AARejected(head)
    THEN [l EXCEPT !.status = IF fate[2] = "crashes" THEN "crashed" ELSE "returned",
                   !.result = 0, !.head = head,
                   !.outside = @ \/ fate[1] = "outside"]
    ELSE [l EXCEPT !.n = @ + 1, !.pos = i + 1, !.head = head,
                   !.outside = @ \/ fate[1] = "outside"]

(* One iteration of "for (n=0; n<(TotalHelices); n++)" *)
LoadSample ==
    /\ loader.status = "reading"
    /\ loader.n < loader.file.declared
    /\ \E i \in {SkipTo(loader.file, loader.pos)} :
         \E head \in {IF i < 0 THEN <<0, 0>> ELSE ItemAt(loader.file, i)} :
           \E fate \in SampleFates(loader, i, head) :
              loader' = AfterSample(loader, i, head, fate)
    /\ UNCHANGED <<pwVars, scoreVars, calVars>>

(* The loop is over: "return TotalHelices" *)
FinishLoad ==
    /\ loader.status = "reading"
    /\ loader.n >= loader.file.declared
    /\ loader' = [loader EXCEPT !.status = "returned", !.result = loader.file.declared]
    /\ UNCHANGED <<pwVars, scoreVars, calVars>>

(* The number of samples ScoreLibrary scores over [0, count) *)
ScoredOf(count) == IF count > 0 THEN count ELSE 0

(* main after the call.  Training library: "if (TotalHelices == 0) return   *)
(* 0", else the library is scored and the program goes on.  User library:   *)
(* "ScoreLibrary(0, totalUserHelices, parameters, userLib)".                 *)
CallerResumes ==
    /\ loader.status = "returned"
    /\ loader.caller = "waiting"
    /\ loader' = IF loader.file.target = "training" /\ loader.result = 0
                 THEN [loader EXCEPT !.caller = "stopped"]
                 ELSE [loader EXCEPT !.caller = "scores",
                                     !.scored = ScoredOf(loader.result)]
    /\ UNCHANGED <<pwVars, scoreVars, calVars>>

(* The library files read *)
LoadFiles ==
    { LibFile("training", 2, 2, 0 - 1, <<0, 0>>),
      LibFile("training", 3, 3, 1, <<4, MinAA>>),
      LibFile("training", 3, 3, 1, <<0 - 1, MinAA>>),
      LibFile("training", 3, 3, 2, <<3, MinAA - 1>>),
      LibFile("training", 3, 3, 2, <<3, MaxAA + 1>>),
      LibFile("training", 3, 3, 0, <<4, MinAA>>),
      LibFile("training", 3, 4, 1, <<0, 0>>),
      LibFile("training", 3, 2, 0 - 1, <<0, 0>>),
      LibFile("training", 0, 0, 0 - 1, <<0, 0>>),
      LibFile("training", 0 - 1, 1, 0 - 1, <<0, 0>>),
      LibFile("training", LibraryCapacity + 1, LibraryCapacity + 1, 0 - 1, <<0, 0>>),
      LibFile("training", LibraryCapacity, LibraryCapacity, LibraryCapacity - 1,
              <<1, 32000>>),
      LibFile("user", 2, 2, 0 - 1, <<0, 0>>),
      LibFile("user", 2, 2, 1, <<4, MinAA>>),
      LibFile("user", 2, 2, 1, <<2, MaxAA + 1>>),
      LibFile("user", UserCapacity + 1, UserCapacity + 1, 0 - 1, <<0, 0>>),
      LibFile("user", 0 - 3, 1, 0 - 1, <<0, 0>>) }

(* readLibrary is entered: the file is open, TotalHelices has been read *)
InitLoad ==
    /\ IdlePW
    /\ IdleCal
    /\ parameters = "none"
    /\ userHelix = "none"
    /\ scoreCalls = 0
    /\ \E f \in LoadFiles :
          loader = [file |-> f, n |-> 0, pos |-> 0, status |-> "reading", result |-> 0,
                    head |-> <<>>, outside |-> FALSE, caller |-> "waiting", scored |-> 0]

NextLoad ==
    \/ LoadSample
    \/ FinishLoad
    \/ CallerResumes

SpecLoad == InitLoad /\ [][NextLoad]_vars

----------------------------------------------------------------------------
(* Phase detection on a sample that has just been read, followed by its     *)
(* scoring: readLibrary line 1460 and main line 1609 call                   *)
(* determine_reptition, ScoreLibrary / ScoreHelix score the sample whatever *)
(* the outcome                                                               *)

(* A chain of numAA residues repeating triad in which the Gly at the        *)
(* positions of holes are replaced by Pro                                   *)
PhaseChain(triad, numAA, holes) ==
    [x \in 0..(numAA - 1) |->
        IF x \in holes /\ triad[(x % 3) + 1] = resG THEN resP ELSE triad[(x % 3) + 1]]

PhaseLengths == MinAA..MaxAA

(* Longest sample whose scoring is followed *)
MaxScoredAA == 22
PhaseTriads ==
    { <<resP, resO, resG>>, <<resG, resP, resO>>, <<resO, resG, resP>>,
      <<resG, resG, resP>>, <<resP, resG, resG>>, <<resG, resG, resG>>,
      <<resP, resP, resO>> }
PhaseHoles == { {}, {3, 4, 5}, {3, 4, 5, 6, 7, 8} }

(* The sample before determine_reptition: XaaPos is not set by              *)
(* initializeAll nor by the reading code                                     *)
RawHelix(chain, XaaPos0) ==
    [LoadedHelix(<<chain>>, "ac", "am", 1800, 0, 0) EXCEPT !.XaaPos = XaaPos0]

InitPhase ==
    /\ IdlePW
    /\ IdleLoad
    /\ Library = "none" /\ workers = "none" /\ passStart = "none"
    /\ sumSquaredDev = 0 /\ NewSumSquaredDev = 0
    /\ improved = FALSE /\ improvedRound = FALSE /\ done = FALSE
    /\ round = 0 /\ cursor = 0 /\ slot = "none"
    /\ allowOptimization = FALSE
    /\ exactValue = "none" /\ history = "none"
    /\ parameters = ParamsTypical
    /\ scoreCalls = 0
    /\ \E triad \in PhaseTriads, numAA \in PhaseLengths, holes \in PhaseHoles,
          XaaPos0 \in IndeterminateShorts :
          userHelix = RawHelix(PhaseChain(triad, numAA, holes), XaaPos0)
    /\ pc = "detect"

(* determine_reptition: "if (not goodPeptide)" prints "This peptide does    *)
(* not appear to have a Gly every third residue!" and calls dissect         *)
DetectPhase ==
    /\ pc = "detect"
    /\ userHelix' = determine_reptition(userHelix)
    /\ pc' = IF goodPeptide(userHelix) THEN "conforming" ELSE "nonconforming"
    /\ UNCHANGED <<pwVars, parameters, scoreCalls, Library, workers, passStart, loopVars,
                   allowOptimization, trialVars, loader>>

(* The sample is scored *)
ScoreDetected ==
    /\ pc \in {"conforming", "nonconforming"}
    /\ userHelix.numAA <= MaxScoredAA
    /\ userHelix' \in ScoreResults(parameters, userHelix)
    /\ scoreCalls' = scoreCalls + 1
    /\ pc' = IF pc = "conforming" THEN "scored" ELSE "scoredNonconforming"
    /\ UNCHANGED <<pwVars, parameters, Library, workers, passStart, loopVars,
                   allowOptimization, trialVars, loader>>

NextPhase == DetectPhase \/ ScoreDetected

SpecPhase == InitPhase /\ [][NextPhase]_vars

----------------------------------------------------------------------------
(* Reference semantics of the selector's contract (section 4.2 of the       *)
(* specification), used only to state the claims.                           *)

PWStates == {NoPair, LatPair, AxPair}

(* An assignment of one state per site is valid when no two consecutive     *)
(* sites are None and no Lateral site directly follows an Axial site.       *)
ValidAssignment(s, m) ==
    \A i \in 1..(m - 1) :
        /\ ~(s[i - 1] = NoPair /\ s[i] = NoPair)
        /\ ~(s[i - 1] = AxPair /\ s[i] = LatPair)

(* The value of one site under its chosen state: its own value if positive *)
SiteValue(X, L, s, i) ==
    IF s[i] = AxPair THEN (IF X[i] > 0 THEN X[i] ELSE 0)
    ELSE IF s[i] = LatPair THEN (IF L[i] > 0 THEN L[i] ELSE 0)
    ELSE 0

PathValue(X, L, s, m) ==
    SumOver([i \in 0..(m - 1) |-> SiteValue(X, L, s, i)], 0..(m - 1))

MaxOfSet(S) == CHOOSE v \in S : \A w \in S : w <= v

BestValidSum(X, L, m) ==
    MaxOfSet({ PathValue(X, L, s, m) :
               s \in { t \in [0..(m - 1) -> PWStates] : ValidAssignment(t, m) } })

(* The feasible path that takes None wherever None is legal and Axial elsewhere *)
GreedyPath(m) == [i \in 0..(m - 1) |-> IF i % 2 = 0 THEN NoPair ELSE AxPair]

PositiveSum(X, L, m) ==
    SumOver([i \in 0..(m - 1) |->
               (IF X[i] > 0 THEN X[i] ELSE 0) + (IF L[i] > 0 THEN L[i] ELSE 0)],
            0..(m - 1))

----------------------------------------------------------------------------
(* Specification of the selector as a pure function: the inputs are drawn   *)
(* from bounded sets and one action applies PairWiseCalc.                   *)

MaxSites == 3
PWValues == {-1, 0, 1, 2}

NumSites == IF DOMAIN XPW = {} THEN 0 ELSE Cardinality(DOMAIN XPW)

InitPW ==
    /\ \E m \in 1..MaxSites :
         /\ XPW \in [0..(m - 1) -> PWValues]
         /\ LPW \in [0..(m - 1) -> PWValues]
    /\ pwResult = "none"
    /\ pwPhase = "ready"
    /\ parameters = "none"
    /\ userHelix = "none"
    /\ scoreCalls = 0
    /\ IdleCal
    /\ IdleLoad

CallPairWiseCalc ==
    /\ pwPhase = "ready"
    /\ pwResult' = Selector(XPW, LPW, NumSites - 1)
    /\ pwPhase' = "done"
    /\ UNCHANGED <<XPW, LPW, scoreVars, calVars, loader>>

NextPW == CallPairWiseCalc

SpecPW == InitPW /\ [][NextPW]_vars

----------------------------------------------------------------------------
(* C1: the selector returns exactly the maximum, over all valid state       *)
(* assignments, of the sum of each site's own chosen positive value.        *)
C1_SelectorIsMaximum ==
    pwPhase = "done" => pwResult = BestValidSum(XPW, LPW, NumSites)

(* C2: for one site the result is max(0, axial[0], lateral[0]). *)
C2_SingleSite ==
    (pwPhase = "done" /\ NumSites = 1)
        => pwResult = MaxOfSet({0, XPW[0], LPW[0]})

(* C3: the result is at least the value of the greedy None/Axial path. *)
C3_AtLeastGreedy ==
    pwPhase = "done"
        => pwResult >= PathValue(XPW, LPW, GreedyPath(NumSites), NumSites)

(* C4: the result is never negative and never exceeds the sum of all        *)
(* strictly positive entries of both arrays over the searched sites.        *)
C4_Bounded ==
    pwPhase = "done"
        => (pwResult >= 0 /\ pwResult <= PositiveSum(XPW, LPW, NumSites))

(* C4 witness: a thread of several sites with positive and negative entries *)
(* has been searched and returned a positive sum.                           *)
C4_Witness ==
    /\ pwPhase = "done"
    /\ NumSites >= 2
    /\ \E i \in DOMAIN XPW : XPW[i] < 0
    /\ \E i \in DOMAIN LPW : LPW[i] > 0
    /\ pwResult > 0

----------------------------------------------------------------------------
(* Claims about ScoreHelix, checked under SpecScore                         *)

Scored == scoreCalls >= 1

RolesOf(reg) == <<reg[1], reg[2], reg[3]>>

(* C7: after scoring, the CC register of a 2-chain sample never has three   *)
(* equal role indices and that of a 3-chain sample has three pairwise       *)
(* distinct role indices.                                                   *)
C7_CompositionFilter ==
    Scored =>
      LET r == userHelix.CCRegister
      IN /\ userHelix.numPep = 2 => ~(r[1] = r[2] /\ r[2] = r[3])
         /\ userHelix.numPep = 3 => (r[1] # r[2] /\ r[1] # r[3] /\ r[2] # r[3])

(* The deviation of section 4.3 when the best register is the CC register *)
MatchingDeviation(bestTm, expTm) ==
    IF expTm = NoTransition
    THEN (IF bestTm <= NoTransitionCap THEN 0 ELSE bestTm - NoTransitionCap)
    ELSE bestTm - expTm

(* C8: when the best register equals the CC register (the role indices the  *)
(* program compares), the stored deviation is bestTm - expTm, or under the  *)
(* sentinel 0 if bestTm <= 10 and bestTm - 10 otherwise.                    *)
C8_MatchingDeviation ==
    (Scored /\ RolesOf(userHelix.bestRegister) = RolesOf(userHelix.CCRegister))
        => userHelix.deviation = MatchingDeviation(userHelix.HighTm, userHelix.expTm)

(* C8 witness: a scored sample whose best register is its CC register, with *)
(* no transition observed and a predicted Tm above 10 degrees.              *)
C8_Witness ==
    /\ Scored
    /\ RolesOf(userHelix.bestRegister) = RolesOf(userHelix.CCRegister)
    /\ userHelix.expTm = NoTransition
    /\ userHelix.HighTm > NoTransitionCap
    /\ userHelix.deviation = userHelix.HighTm - NoTransitionCap

(* C13: a 1-chain sample of 27 residues scored once with the all-zero       *)
(* parameter set has Tm = 0 for the register (0,0,0) and the deviation      *)
(* 0 - expTm (0 under the sentinel), whatever its terminus codes and phase. *)
C13_ZeroParameterExample ==
    (/\ scoreCalls = 1
     /\ userHelix.numPep = 1
     /\ userHelix.numAA = ExampleAA
     /\ parameters = ParamsZero)
        => /\ userHelix.Tm[<<0, 0, 0>>] = 0
           /\ userHelix.deviation = MatchingDeviation(0, userHelix.expTm)

(* The deviation of section 4.3 when the best register is not the CC register *)
MismatchDeviation(bestTm, CCTm, expTm) ==
    LET base == MatchingDeviation(CCTm, expTm)
        penalty == Abs(CCTm - bestTm) \div 2
    IN IF base >= 0 THEN base + penalty ELSE base - penalty

(* C9: when the best register differs from the CC register (both set by the *)
(* enumeration), the deviation is the CCTm-based base (with the sentinel    *)
(* handling) plus or minus 0.5*|CCTm - bestTm|, in the sentinel case as     *)
(* well.                                                                    *)
C9_MismatchDeviation ==
    (Scored /\ RolesOf(userHelix.bestRegister) # RolesOf(userHelix.CCRegister)
            /\ RolesOf(userHelix.bestRegister) \in Triples
            /\ RolesOf(userHelix.CCRegister) \in Triples)
        => userHelix.deviation
             = MismatchDeviation(userHelix.HighTm, userHelix.CCTm, userHelix.expTm)

(* C10: scoring is a pure recomputation: a call of ScoreHelix on a sample   *)
(* that was scored before (with a best register found) and has not been     *)
(* edited, under the same parameters, leaves every derived value as it was. *)
C10_PureRecomputation ==
    [][(Scored /\ scoreCalls' = scoreCalls + 1
          /\ ~ReadsOutsideGrid(userHelix) /\ ~ReadsOutsideGrid(userHelix')
          /\ userHelix'.sequences = userHelix.sequences
          /\ parameters' = parameters)
        => userHelix' = userHelix]_vars

(* C10, second part: after every call the charge cells of each enumerated   *)
(* triple hold the counts over the residues of its three chains.            *)
ChargesAreCounts ==
    Scored =>
      \A k \in 0..(userHelix.numPep * userHelix.numPep * userHelix.numPep - 1) :
         LET t == TripleAt(k, userHelix.numPep)
         IN /\ userHelix.netCharge[t] = NetCount(userHelix, t)
            /\ userHelix.totalCharge[t] = TotalCount(userHelix, t)

----------------------------------------------------------------------------
(* Claims about the calibration loop, checked under SpecCal                 *)

InLoop == pc \in {"while", "visit", "decreasePass", "afterDecrease",
                  "increasePass", "afterIncrease"}

(* C5: in the calibration loop the tracked total never increases, and it     *)
(* changes only by taking a new total that is strictly smaller.              *)
C5_Monotone ==
    [][InLoop =>
         /\ sumSquaredDev' <= sumSquaredDev
         /\ (sumSquaredDev' # sumSquaredDev)
               => (improved' /\ sumSquaredDev' = NewSumSquaredDev'
                   /\ NewSumSquaredDev' < sumSquaredDev)
         /\ (improved' /\ ~improved) => sumSquaredDev' < sumSquaredDev]_vars

(* C5 witness: in a later round of the loop a trial has just been kept,      *)
(* after a trial of the same scalar was rejected.                            *)
C5_Witness ==
    /\ pc = "afterIncrease"
    /\ improved
    /\ sumSquaredDev = NewSumSquaredDev
    /\ sumSquaredDev > 0

(* C6: when the two workers of a rescoring pass have finished, every sample  *)
(* holds what one call of ScoreHelix under the pass's parameters makes of    *)
(* the sample as it was when the pass began, whatever the order of the       *)
(* workers' steps.                                                           *)
C6_ScheduleIndependent ==
    (pc \in PassStates /\ AllJoined)
        => \A n \in DOMAIN Library :
              Library[n] \in ScoreResults(parameters, passStart[n])

(* C6 witness: a pass has finished in which each worker scored at least two  *)
(* samples, so that their steps could interleave in several orders.          *)
C6_Witness ==
    /\ pc \in PassStates
    /\ AllJoined
    /\ TotalHelices >= 4
    /\ \A w \in WorkerIds : workers[w].next = workers[w].stop

----------------------------------------------------------------------------
(* Claims about the calibration loop, checked under SpecCal / SpecCalFair   *)

(* What C14 states of every state of the loop: the round count never passes *)
(* maxRounds, a scalar is rescored at most twice in a round, the loop goes  *)
(* on only after a round that changed a scalar and below maxRounds rounds,  *)
(* and it has ended only after a round without change or at maxRounds.      *)
C14_Bounded ==
    /\ round <= maxRounds
    /\ (pc \in {"decreasePass", "afterDecrease", "increasePass", "afterIncrease"}
          => history.passes <= 2)
    /\ (pc = "while" /\ round >= 1 /\ ~done) => (history.changed /\ round < maxRounds)
    /\ (pc \in {"while", "finished"} /\ round >= 1 /\ done)
          => (~history.changed \/ round = maxRounds)

(* C14: the calibration loop always terminates, at the end of the first     *)
(* round that changed no scalar or else when the round count reaches        *)
(* maxRounds; it never runs more than maxRounds rounds and rescoring passes *)
(* are at most two per scalar and round.                                    *)
C14_LoopTerminates == []C14_Bounded /\ <>(pc = "finished")

(* C14 witness: the loop has ended at maxRounds after a round that still    *)
(* changed a scalar.                                                        *)
C14_Witness ==
    /\ pc = "finished"
    /\ allowOptimization
    /\ round = maxRounds
    /\ history.changed

(* The samples thread w has scored so far *)
WrittenBy(w) == { workers[w].wrote[i] : i \in 1..Len(workers[w].wrote) }

(* Every sample of 0..N-1 has been scored exactly once in the pass *)
CoveredOnce ==
    /\ WrittenBy(1) \cup WrittenBy(2) = 0..(TotalHelices - 1)
    /\ Len(workers[1].wrote) + Len(workers[2].wrote) = TotalHelices

(* C15: in every pass the first thread scores only samples of [0, N/2), the *)
(* second only samples of [N/2, N) (integer division), no sample is scored  *)
(* by both, and the totals sumSquaredDev and NewSumSquaredDev are computed  *)
(* only when both threads have finished and every sample 0..N-1 has been    *)
(* scored exactly once.                                                      *)
C15_Halves ==
    /\ \A n \in WrittenBy(1) : 0 <= n /\ n < TotalHelices \div 2
    /\ \A n \in WrittenBy(2) : TotalHelices \div 2 <= n /\ n < TotalHelices
    /\ WrittenBy(1) \cap WrittenBy(2) = {}

C15_Partition ==
    /\ []C15_Halves
    /\ [][(pc \in PassStates /\ pc' \notin PassStates)
            => /\ \A w \in WorkerIds : workers[w].next >= workers[w].stop
               /\ CoveredOnce]_vars
    /\ [][(sumSquaredDev' # sumSquaredDev \/ NewSumSquaredDev' # NewSumSquaredDev)
            => \A w \in WorkerIds : workers[w].next >= workers[w].stop]_vars

(* The end of a rescoring pass over three samples: the first thread scored  *)
(* sample 0, the second samples 1 and 2                                      *)
C15_Witness ==
    /\ pc = "afterDecrease"
    /\ TotalHelices = 3
    /\ workers[1].wrote = <<0>>
    /\ WrittenBy(2) = {1, 2}
    /\ NewSumSquaredDev > 0

(* The same for a library of a single sample: the first thread scores nothing *)
C15_WitnessSingle ==
    /\ pc = "afterDecrease"
    /\ TotalHelices = 1
    /\ workers[1].wrote = <<>>
    /\ workers[2].wrote = <<0>>
    /\ NewSumSquaredDev > 0

(* C16: a thread's copy of the parameters does not change while it runs,    *)
(* main changes parameters only when no thread is running and none is in a  *)
(* pass, both threads of a pass hold the values main holds, and at most two *)
(* threads run at a time.                                                    *)
Running(w) == workers[w].next < workers[w].stop

C16_SameValues ==
    /\ Cardinality({w \in DOMAIN workers : Running(w)}) <= 2
    /\ pc \in PassStates
         => \A w \in WorkerIds : workers[w].params = parameters

C16_ParametersStable ==
    /\ []C16_SameValues
    /\ [][\A w \in WorkerIds :
            (Running(w) /\ pc' = pc) => workers'[w].params = workers[w].params]_vars
    /\ [][parameters' # parameters
            => (pc \notin PassStates /\ \A w \in WorkerIds : ~Running(w))]_vars

(* A rescoring pass under way with a lowered scalar: one thread has scored  *)
(* a sample, the other is still to score one                                 *)
C16_Witness ==
    /\ pc = "decreasePass"
    /\ parameters # history.start
    /\ Running(1)
    /\ workers[2].wrote # <<>>

(* C17: the processing of one flagged scalar of value v ends with the       *)
(* scalar at v - delta (the decrease was rescored and improved the total),  *)
(* at v + delta (the decrease was skipped or rejected, the increase was     *)
(* rescored and improved the total) or at exactly v; the increase is tried  *)
(* only when the decrease was not accepted; every other scalar is as it     *)
(* was.  The values are the doubles the program holds.                      *)
C17_TrialOutcome ==
    /\ [][(pc \in {"afterDecrease", "afterIncrease"} /\ pc' = "visit")
            => /\ \/ /\ pc = "afterDecrease" /\ improved /\ history.passes = 1
                     /\ exactValue'[slot] = FSub(history.startValue, DoubleOf(delta))
                  \/ /\ pc = "afterIncrease" /\ improved /\ history.passes >= 1
                     /\ exactValue'[slot] = FAdd(history.startValue, DoubleOf(delta))
                  \/ /\ pc = "afterIncrease" /\ ~improved
                     /\ exactValue'[slot] = history.startValue
               /\ \A t \in DOMAIN exactValue \ {slot} : exactValue'[t] = exactValue[t]
               /\ parameters' = WithScalar(history.start, slot, ScalarOf(parameters', slot))]_vars
    /\ [][pc' \in {"increasePass", "afterIncrease"} /\ pc = "afterDecrease" => ~improved]_vars

(* The window of a scalar: [reference - maxDev, reference + maxDev], on the *)
(* doubles                                                                   *)
InWindow(value, ex) ==
    /\ FLeq(FSub(ex, DoubleOf(maxDev)), value)
    /\ FLeq(value, FAdd(ex, DoubleOf(maxDev)))

(* C18: a candidate value is rescored, and so accepted, only if it lies in  *)
(* [reference - maxDev, reference + maxDev]; a candidate outside is skipped *)
(* without rescoring; so every accepted value lies in the window, whatever  *)
(* the value the scalar started from.                                        *)
C18_WindowGuard ==
    /\ [][pc' \in {"decreasePass", "increasePass"} /\ pc' # pc
            => InWindow(exactValue'[slot'], DoubleOf(ExOf(parameters', slot')))]_vars
    /\ [][(pc \in {"afterDecrease", "afterIncrease"} /\ pc' = "visit" /\ improved)
            => InWindow(exactValue'[slot], DoubleOf(ExOf(parameters, slot)))]_vars

(* Place of a kind of scalar in the order X propensities, Y propensities,   *)
(* axial cells, lateral cells                                                *)
KindRank(kind) ==
    IF kind = "propensityX" THEN 0
    ELSE IF kind = "propensityY" THEN 1
    ELSE IF kind = "axial" THEN 2
    ELSE 3

(* C19: within a round the scalars are processed in the order all Xaa       *)
(* propensities, then all Yaa propensities, then all axial cells, then all  *)
(* lateral cells: no scalar of a later kind is processed before one of an   *)
(* earlier kind.  history.visited is the sequence of scalars processed so   *)
(* far in the round.                                                         *)
C19_KindOrder ==
    \A i \in 1..Len(history.visited) : \A j \in i..Len(history.visited) :
        KindRank(history.visited[i].kind) <= KindRank(history.visited[j].kind)

(* Every scalar of the parameter set *)
AllScalars ==
    { [kind |-> k, x |-> r, y |-> 0] : k \in {"propensityX", "propensityY"}, r \in Residues }
    \cup { [kind |-> k, x |-> c[1], y |-> c[2]]
           : k \in {"axial", "lateral"}, c \in Residues \X Residues }

(* The number of occurrences counted for a scalar *)
CountOf(count, s) ==
    IF s.kind = "propensityX" THEN count.propensityX[s.x]
    ELSE IF s.kind = "propensityY" THEN count.propensityY[s.x]
    ELSE IF s.kind = "axial" THEN count.axial[s.x][s.y]
    ELSE count.lateral[s.x][s.y]

(* The scalars that are never tuned: proline as Xaa propensity or in an     *)
(* axial cell, hydroxyproline as Yaa propensity or in an axial or lateral   *)
(* cell                                                                      *)
ForcedIneligible(s) ==
    \/ s.kind = "propensityX" /\ s.x = resP
    \/ s.kind = "propensityY" /\ s.x = resO
    \/ s.kind = "axial" /\ (s.x = resP \/ s.y = resP \/ s.x = resO)
    \/ s.kind = "lateral" /\ s.x = resO

(* C20: after the eligibility pass a scalar is tunable only if it was       *)
(* counted more than 25 times in the library and is not forced ineligible,  *)
(* whatever the mask of the options file says.  history.count holds the     *)
(* counts of the pass.                                                       *)
C20_TunableOnlyIfCounted ==
    pc # "count"
      => \A s \in AllScalars :
            s \in Tunable(parameters)
              => (CountOf(history.count, s) > MinCount /\ ~ForcedIneligible(s))

----------------------------------------------------------------------------
(* Claims about the loading of a library, checked under SpecLoad *)

(* C11: when a sample is read whose numPep is outside [1,3] or whose numAA  *)
(* is outside [21,48], readLibrary returns 0, the caller scores no sample   *)
(* of that library, and for the training library the program stops.         *)
(* loader.head is the head of the last sample read.                         *)
C11_RejectsMalformedSample ==
    (/\ loader.status # "reading"
     /\ loader.head # <<>>
     /\ (loader.head[1] < 1 \/ loader.head[1] > 3
         \/ loader.head[2] < 21 \/ loader.head[2] > 48))
        => /\ loader.status = "returned"
           /\ loader.result = 0
           /\ loader.caller # "waiting"
                => /\ loader.scored = 0
                   /\ loader.file.target = "training" => loader.caller = "stopped"

(* C12: when the declared number of samples is negative or larger than the  *)
(* capacity of the array (500 training samples, 100 user samples), the load *)
(* fails (readLibrary returns 0), no slot outside the array is written, and *)
(* the caller does not go on to score the library.                           *)
C12_RejectsBadCount ==
    (loader.file.declared < 0
     \/ loader.file.declared > (IF loader.file.target = "training" THEN 500 ELSE 100))
        => /\ ~loader.outside
           /\ loader.status # "reading" => (loader.status = "returned" /\ loader.result = 0)
           /\ loader.caller # "waiting" => (loader.caller # "scores" /\ loader.scored = 0)

----------------------------------------------------------------------------
(* Claims about phase detection, checked under SpecPhase *)

(* The positions of chain 0 congruent to track mod 3 that hold Gly *)
GlyOnTrack(h, track) ==
    Cardinality({x \in 0..(h.numAA - 1) : x % 3 = track /\ h.sequences[0][x] = resG})

(* ceil(numAA / 3) *)
CeilThird(numAA) == (numAA + 2) \div 3

(* The track whose Gly give phase XaaPos: isGly holds on it *)
TrackOfPhase(XaaPos) == (XaaPos + 2) % 3

(* C21: when phase detection assigns a phase, the track it is taken from    *)
(* holds at least ceil(numAA/3) Gly: a track with fewer never determines    *)
(* the phase, for every numAA of 21..48.                                     *)
C21_GlyThreshold ==
    pc = "conforming"
       => GlyOnTrack(userHelix, TrackOfPhase(userHelix.XaaPos))
             >= CeilThird(userHelix.numAA)

(* The tracks of chain 0 that meet the threshold of determine_reptition *)
QualifyingTracks(h) == {t \in 0..2 : GlyOnTrack(h, t) >= h.numAA \div 3}

(* C22: when no track or more than one track meets the Gly threshold, phase *)
(* detection leaves the phase of the sample as it was and takes the         *)
(* non-conforming branch (diagnostic printed); a phase is assigned without  *)
(* diagnostic only when exactly one track qualifies.                         *)
C22_TieOrAbsence ==
    [][(pc = "detect" /\ pc' # "detect")
         => IF Cardinality(QualifyingTracks(userHelix)) = 1
            THEN /\ pc' = "conforming"
                 /\ TrackOfPhase(userHelix'.XaaPos) \in QualifyingTracks(userHelix)
            ELSE /\ pc' = "nonconforming"
                 /\ userHelix'.XaaPos = userHelix.XaaPos]_vars

(* C23: for every position p >= 0 and every phase of 0..2 exactly one of    *)
(* isXaa(p), isYaa(p), isGly(p) holds, namely the one given by              *)
(* (p + 3 - phase) mod 3 = 0, 1, 2; and once phase detection has taken the  *)
(* phase from Gly track t, isGly(p) holds exactly for the positions p       *)
(* congruent to t mod 3.  The selected track is the last qualifying one.    *)
C23_RoleClassification ==
    /\ \A phase \in 0..2 : \A p \in 0..(MaxAA - 1) :
          /\ isXaa(phase, p) <=> ((p + 3 - phase) % 3 = 0)
          /\ isYaa(phase, p) <=> ((p + 3 - phase) % 3 = 1)
          /\ isGly(phase, p) <=> ((p + 3 - phase) % 3 = 2)
          /\ Cardinality({r \in {"X", "Y", "G"} :
                            \/ r = "X" /\ isXaa(phase, p)
                            \/ r = "Y" /\ isYaa(phase, p)
                            \/ r = "G" /\ isGly(phase, p)}) = 1
    /\ pc \in {"conforming", "scored"}
         => \A p \in 0..(userHelix.numAA - 1) :
               isGly(userHelix.XaaPos, p)
                  <=> (p % 3 = Greatest(QualifyingTracks(userHelix)))

(* Phase detection has taken the phase from track 0 of a chain of 22        *)
(* residues: the last position, 21, is classified Gly and holds a Gly       *)
C23_Witness ==
    /\ pc = "conforming"
    /\ userHelix.numAA = 22
    /\ QualifyingTracks(userHelix) = {0}
    /\ userHelix.XaaPos = 1
    /\ isGly(userHelix.XaaPos, 21)
    /\ userHelix.sequences[0][21] = resG


----------------------------------------------------------------------------
(* Claims about the propensity total, checked under SpecScore               *)

(* The triples the enumeration visits for a sample of numPep peptides *)
Enumerated(h) == {t \in Triples : \A i \in 1..3 : t[i] < h.numPep}

(* (n - 6) / 3 degrees as a real quotient, in sixtieths of a degree *)
ThirdOfExcess(net) ==
    IF Abs(net) > ChargeFree THEN (Abs(net) - ChargeFree) * (DegreeUnit \div 3) ELSE 0

(* C26: for every enumerated triple whose absolute net charge n exceeds 6   *)
(* the propensity total is reduced by exactly (n - 6) / 3 degrees, a real   *)
(* quotient (1/3 for 7, 2/3 for 8, 1 for 9); for n <= 6 nothing is taken.   *)
C26_ChargeQuotient ==
    scoreCalls >= 1 =>
       \A t \in Enumerated(userHelix) :
          userHelix.Propensity[t]
             = LengthBasis(parameters, userHelix.numAA) + TerminalTerms(userHelix, t)
               + SingleAAScore(parameters, userHelix, t)
               - ThirdOfExcess(userHelix.netCharge[t])

(* The outermost triad at either end: positions 0..2 and numAA-3..numAA-1 *)
OutermostTriad(x, numAA) == x <= 2 \/ x >= numAA - 3

(* The X/Y propensity of residue r at position x, a third of it inside the  *)
(* outermost triads                                                         *)
TriadWeighted(params, h, r, x) ==
    LET full == IF isXaa(h.XaaPos, x) THEN params.propensityX[r]
                ELSE IF isYaa(h.XaaPos, x) THEN params.propensityY[r]
                ELSE 0
    IN IF OutermostTriad(x, h.numAA) THEN full \div 3 ELSE full

TriadWeightedSum(params, h, t) ==
    SumOver([x \in 0..(h.numAA - 1) |->
                TriadWeighted(params, h, h.sequences[t[1]][x], x)
              + TriadWeighted(params, h, h.sequences[t[2]][x], x)
              + TriadWeighted(params, h, h.sequences[t[3]][x], x)],
            0..(h.numAA - 1))

(* C27: in the per-residue propensity sum the X/Y propensity of a position  *)
(* is scaled by 1/3 exactly when the position lies in the outermost triad   *)
(* at either end (0..2 or numAA-3..numAA-1) and is added in full elsewhere; *)
(* the two ends are treated alike.                                          *)
C27_TipTriads ==
    scoreCalls >= 1 =>
       \A t \in Enumerated(userHelix) :
          userHelix.Propensity[t]
             = LengthBasis(parameters, userHelix.numAA) + TerminalTerms(userHelix, t)
               + TriadWeightedSum(parameters, userHelix, t)
               - ChargePenalty(userHelix.netCharge[t])


----------------------------------------------------------------------------
(* Claims about the best, second-best and CC registers, under SpecScore     *)

(* The register <<a, b, c, d>> of the triple t at offset class 0 *)
RegisterOf(t) == <<t[1], t[2], t[3], 0>>

(* C24: after scoring a sample with numPep >= 2, HighTm is the maximum Tm   *)
(* over the numPep^3 triples of offset class 0 and bestRegister a triple    *)
(* attaining it; secTm is the second-largest value of the multiset of those *)
(* Tm and secRegister an enumerated triple other than bestRegister that     *)
(* attains it; specificity = HighTm - secTm >= 0; both registers are of     *)
(* offset class 0.                                                          *)
C24_BestAndSecond ==
    (scoreCalls >= 1 /\ userHelix.numPep >= 2) =>
       \E b \in Enumerated(userHelix) : \E s \in Enumerated(userHelix) \ {b} :
          /\ userHelix.bestRegister = RegisterOf(b)
          /\ userHelix.secRegister = RegisterOf(s)
          /\ userHelix.HighTm = userHelix.Tm[b]
          /\ userHelix.secTm = userHelix.Tm[s]
          /\ \A u \in Enumerated(userHelix) : userHelix.Tm[u] <= userHelix.Tm[b]
          /\ \A u \in Enumerated(userHelix) \ {b} : userHelix.Tm[u] <= userHelix.Tm[s]
          /\ userHelix.specificity = userHelix.HighTm - userHelix.secTm
          /\ userHelix.specificity >= 0

(* Position of the triple t in "for a, for b, for c" *)
EnumerationIndex(t) == (t[1] * 9) + (t[2] * 3) + t[3]

(* The compositionally valid triples of the sample that attain the largest  *)
(* Tm among the valid ones                                                  *)
ValidMaxima(h) ==
    LET valid == {t \in Enumerated(h) : CompositionAllowed(h.numPep, t)}
    IN {t \in valid : \A u \in valid : h.Tm[u] <= h.Tm[t]}

(* C25: when several compositionally valid triples share the maximum Tm,    *)
(* CCRegister is the first of them in enumeration order (a, then b, then    *)
(* c): a later triple with an equal Tm does not replace it.  The case is    *)
(* that of a CC register taken from a triple, CCTm being that maximum.      *)
C25_FirstOfTies ==
    (/\ scoreCalls >= 1
     /\ Cardinality(ValidMaxima(userHelix)) > 1
     /\ \E t \in ValidMaxima(userHelix) : userHelix.CCTm = userHelix.Tm[t])
    => \E t \in ValidMaxima(userHelix) :
          /\ \A u \in ValidMaxima(userHelix) : EnumerationIndex(t) <= EnumerationIndex(u)
          /\ userHelix.CCRegister = RegisterOf(t)


----------------------------------------------------------------------------
(* A forward dynamic program over (site, state), used to state C28          *)

(* The three adjacency rules: the state s may follow the state q *)
MayFollow(q, s) ==
    /\ ~(q = NoPair /\ s = NoPair)
    /\ ~(q = AxPair /\ s = LatPair)

(* The chosen state's own positive value at site i *)
OwnValue(X, L, s, i) ==
    IF s = AxPair THEN (IF X[i] > 0 THEN X[i] ELSE 0)
    ELSE IF s = LatPair THEN (IF L[i] > 0 THEN L[i] ELSE 0)
    ELSE 0

RECURSIVE ForwardTable(_, _, _)
(* For each state s, the best sum over sites 0..i of a valid assignment     *)
(* that ends in s at site i                                                 *)
ForwardTable(X, L, i) ==
    IF i = 0 THEN [s \in PWStates |-> OwnValue(X, L, s, 0)]
    ELSE Only({ [s \in PWStates |->
                    OwnValue(X, L, s, i)
                    + MaxOfSet({prev[q] : q \in {r \in PWStates : MayFollow(r, s)}})]
                : prev \in {ForwardTable(X, L, i - 1)} })

ForwardProgram(X, L, m) ==
    MaxOfSet({ForwardTable(X, L, m - 1)[s] : s \in PWStates})

(* C28: the selector's recursive search and a forward dynamic program over  *)
(* (site, state in None, Lateral, Axial) that applies the three adjacency   *)
(* rules and adds only the chosen state's own positive value return the     *)
(* same result for every input.                                             *)
C28_SameAsForwardProgram ==
    pwPhase = "done" => pwResult = ForwardProgram(XPW, LPW, NumSites)


----------------------------------------------------------------------------
(* Claims about the end of the calibration, checked under SpecCal           *)

(* C29: when the calibration loop has run and finished, the per-sample      *)
(* results held in the library are those of scoring under the final         *)
(* ParameterSet: the sum of the squared stored deviations equals the final  *)
(* reported sumSquaredDev, also when the last trial of the last round was   *)
(* rejected and its scalar restored.                                        *)
C29_StoredDeviationsAreFinal ==
    (pc = "finished" /\ allowOptimization /\ round >= 1)
       => SumSquares(Library) = sumSquaredDev


----------------------------------------------------------------------------
(* The parameter files: parameters.txt as ReadParameters parses it and      *)
(* newParameters.txt as WriteParameters prints it.  A number of a file is a *)
(* decimal <<m, x>>, standing for m * 10^x with m not divisible by 10.      *)

RECURSIVE Pow10(_)
Pow10(n) == IF n = 0 THEN 1 ELSE 10 * Pow10(n - 1)

RECURSIVE Normal(_, _)
(* The decimal m * 10^x without trailing zeros *)
Normal(m, x) ==
    IF m = 0 THEN <<0, 0>>
    ELSE IF m % 10 = 0 THEN Normal(m \div 10, x + 1)
    ELSE <<m, x>>

(* Significant digits of "stream << double" *)
StreamPrecision == 6

(* The decimal exponent e of units/60: 10^e <= |units/60| < 10^(e+1) *)
DecimalExponent(units) ==
    CHOOSE e \in (0 - 2)..(StreamPrecision - 2) :
        /\ 60 * Pow10(e + 2) <= Abs(units) * 100
        /\ Abs(units) * 100 < 600 * Pow10(e + 2)

(* "newParameters << value": the value rounded to 6 significant digits,     *)
(* units/60 * 10^(5-e) = units * 10^(4-e) / 6 rounded to a whole number     *)
StreamOut(units) ==
    IF units = 0 THEN <<0, 0>>
    ELSE Only({ Only({ Normal(IF units < 0 THEN 0 - digits ELSE digits,
                              e - (StreamPrecision - 1))
                       : digits \in {((Abs(units) * Pow10(StreamPrecision - 2 - e)) + 3)
                                      \div 6} })
                : e \in {DecimalExponent(units)} })

(* The decimal of parameters.txt that "parameterFile >> value" parsed into  *)
(* the value: the files of the model hold multiples of 0.05                 *)
FileDecimal(units) == Normal((units * 5) \div 3, 0 - 2)

(* The scalars of a ParameterSet: the length model and the four tables *)
ScalarsOf(params) ==
    [A |-> params.A, B |-> params.B, C |-> params.C,
     propensityX |-> params.propensityX, propensityY |-> params.propensityY,
     lateral |-> params.lateral, axial |-> params.axial]

(* newParameters.txt after WriteParameters(parameters): the length model    *)
(* and the tables, rows and columns 1..26                                   *)
WriteParameters(params) ==
    [A |-> StreamOut(params.A), B |-> StreamOut(params.B), C |-> StreamOut(params.C),
     propensityX |-> [x \in Residues \ {0} |-> StreamOut(params.propensityX[x])],
     propensityY |-> [x \in Residues \ {0} |-> StreamOut(params.propensityY[x])],
     lateral |-> [y \in Residues \ {0} |->
                    [x \in Residues \ {0} |-> StreamOut(params.lateral[y][x])]],
     axial |-> [y \in Residues \ {0} |->
                  [x \in Residues \ {0} |-> StreamOut(params.axial[y][x])]]]

(* parameters.txt of the ParameterSet that ReadParameters returned *)
ParameterFile(params) ==
    [A |-> FileDecimal(params.A), B |-> FileDecimal(params.B), C |-> FileDecimal(params.C),
     propensityX |-> [x \in Residues \ {0} |-> FileDecimal(params.propensityX[x])],
     propensityY |-> [x \in Residues \ {0} |-> FileDecimal(params.propensityY[x])],
     lateral |-> [y \in Residues \ {0} |->
                    [x \in Residues \ {0} |-> FileDecimal(params.lateral[y][x])]],
     axial |-> [y \in Residues \ {0} |->
                  [x \in Residues \ {0} |-> FileDecimal(params.axial[y][x])]]]

(* C30: in the program as written, use case 0 never enters the calibration  *)
(* loop: done is true before the test of "while (not done)", so no round    *)
(* runs, no scalar of the ParameterSet is modified, the library is scored   *)
(* exactly once, and the ParameterSet written out equals the one loaded.    *)
C30_LoopNeverEntered ==
    ~allowOptimization =>
       /\ round = 0
       /\ pc \in {"count", "start", "initialPass", "while", "finished"}
       /\ pc = "while" => done
       /\ pc # "count" =>
             /\ ScalarsOf(parameters) = ScalarsOf(history.mask)
             /\ history.visited = <<>>
             /\ history.passes = 0
       /\ pc = "finished" =>
             /\ CoveredOnce
             /\ \A n \in DOMAIN Library :
                   Library[n].netCharge[<<0, 0, 0>>] = NetCount(Library[n], <<0, 0, 0>>)
             /\ WriteParameters(parameters) = ParameterFile(history.mask)

(* The program as written has finished on a library of two samples: the     *)
(* eligibility pass changed flags of the ParameterSet, no round ran, every  *)
(* sample was scored once and the file holds -80 and 0.4                    *)
C30_Witness ==
    /\ ~allowOptimization
    /\ pc = "finished"
    /\ TotalHelices = 2
    /\ parameters # history.mask
    /\ CoveredOnce
    /\ WriteParameters(parameters).A = <<0 - 8, 1>>
    /\ WriteParameters(parameters).lateral[resK][resP] = <<4, 0 - 1>>

=============================================================================
